---- MODULE Spec2Model ----
(***************************************************************************)
(* Verification model of enb.aanalysis (src/enb/aanalysis.py): the key     *)
(* binner, the histogram engine, group partitioning, the comparative       *)
(* analyzers and the render-mode validation of the analyzers.              *)
(*                                                                         *)
(* Each component is a state machine over its own variables; a            *)
(* specification SpecX lets one component run and keeps the others idle.   *)
(***************************************************************************)
EXTENDS Integers, Sequences, FiniteSets, TLC

VARIABLES
    binner,     \* the HistogramKeyBinner instance (its __init__ attributes)
    bcall,      \* the progress of HistogramKeyBinner.__call__ on one mapping
    analyzer,   \* the ScalarNumericAnalyzer class attribute and instance
    call,       \* the progress of one Analyzer.get_df call
    adf,        \* the progress of one analyze_df call of a grouping analyzer
    fcall,      \* the progress of one analyze_df call with TaskFamily groups
    heap,       \* the TaskFamily instances and the lists of task names they refer to
    dcall,      \* the progress of one ScalarDictAnalyzer.analyze_df call
    ycall       \* the progress of one ScalarDistributionAnalyzer.analyze_df call of several columns

vars == <<binner, bcall, analyzer, call, adf, fcall, heap, dcall, ycall>>

\* What the actions of one component leave alone
notBinner == <<analyzer, call, adf, fcall, heap, dcall, ycall>>
notAnalyzer == <<binner, bcall, adf, fcall, heap, dcall, ycall>>
notAdf == <<binner, bcall, analyzer, call, fcall, heap, dcall, ycall>>
notFcall == <<binner, bcall, analyzer, call, adf, heap, dcall, ycall>>
notHeap == <<binner, bcall, analyzer, call, adf, fcall, dcall, ycall>>
notDcall == <<binner, bcall, analyzer, call, adf, fcall, heap, ycall>>
notYcall == <<binner, bcall, analyzer, call, adf, fcall, heap, dcall>>

(***************************************************************************)
(* Generic helpers                                                         *)
(***************************************************************************)

\* sum(f[k] for k in S), as Python's sum() over the values of a mapping
RECURSIVE SumOver(_, _)
SumOver(f, S) ==
    IF S = {} THEN 0
    ELSE LET k == CHOOSE x \in S : TRUE
         IN f[k] + SumOver(f, S \ {k})

\* sum(s) of a sequence of numbers
RECURSIVE SumSeq(_)
SumSeq(s) == IF s = <<>> THEN 0 ELSE Head(s) + SumSeq(Tail(s))

\* max() and min() of a non-empty set of integers
SetMax(S) == CHOOSE x \in S : \A y \in S : y <= x
SetMin(S) == CHOOSE x \in S : \A y \in S : x <= y

\* The elements of a sequence
Range(s) == {s[i] : i \in DOMAIN s}

(***************************************************************************)
(* Numbers. A finite float is an integer count of 1/Unit steps; the three  *)
(* non-finite floats are sentinels outside the finite values in use.       *)
(***************************************************************************)

\* Steps per 1.0 of the fixed-point values (the "+ 1" of line 589 adds Unit steps)
Unit == 2
\* float("inf"), float("-inf") and float("nan")
PInf == 100000
NInf == -100000
NaN == 200000

IsNaN(v) == v = NaN
\* math.isinf
IsInf(v) == v = PInf \/ v = NInf
\* math.isfinite / np.isfinite
IsFinite(v) == ~IsNaN(v) /\ ~IsInf(v)

\* x + 1 in floating point: the non-finite values absorb the addition
PlusOne(x) == IF IsFinite(x) THEN x + Unit ELSE x

\* a > b and a < b in floating point: every comparison with NaN is False
FGreater(a, b) == ~IsNaN(a) /\ ~IsNaN(b) /\ a > b
FLess(a, b) == ~IsNaN(a) /\ ~IsNaN(b) /\ a < b
\* a == b in floating point
FEqual(a, b) == ~IsNaN(a) /\ ~IsNaN(b) /\ a = b

\* An optional value: None, or a number
None == [some |-> FALSE, v |-> 0]
Some(x) == [some |-> TRUE, v |-> x]

\* Series.dropna(): the values of a sequence that are not NaN
DropNa(s) == SelectSeq(s, LAMBDA v : ~IsNaN(v))

(***************************************************************************)
(* HistogramKeyBinner                                                      *)
(***************************************************************************)

\* Bounds of the binner's inputs
MaxDictKeys == 3

\* Keys, weights and constructor arguments the binner is exercised with
BinnerKeys == {-5, 0, 3, 7, 10, 12}
BinnerWeights == {1, 2}
BinnerRanges == {<<0, 10>>, <<3, 10>>, <<3, 3>>}
BinnerBinCounts == {1, 2, 5}

\* The mappings handed to __call__: at most MaxDictKeys numeric keys, each with a weight
BinnerDicts ==
    UNION {[K -> BinnerWeights] : K \in {S \in SUBSET BinnerKeys : Cardinality(S) <= MaxDictKeys}}

\* 1 / 1e-10, the lower limit of bin_width (line 1805). It only ever multiplies a key
\* distance of a degenerate range, where every non-zero product exceeds any list length;
\* it is kept below TLC's 32-bit integers.
InvEpsilon == 1000000

\* self.bin_width = max(1e-10, (max_value - min_value) / self.bin_count), as the fraction num/den
BinWidth(min_value, max_value, bin_count) ==
    IF max_value - min_value > 0
    THEN [num |-> max_value - min_value, den |-> bin_count]
    ELSE [num |-> 1, den |-> InvEpsilon]

\* math.floor((k - self.min_value) / self.bin_width)
FloorIndex(b, k) == ((k - b.min_value) * b.bin_width.den) \div b.bin_width.num

\* self.intervals: np.linspace(min_value, max(min_value, max_value - bin_width), bin_count)
\* gives the left ends min_value + i * bin_width; the right end is min(left + bin_width, max_value).
\* Ends are kept as numerators over bin_width.den.
Intervals(min_value, max_value, bin_count) ==
    LET w == BinWidth(min_value, max_value, bin_count)
        top == max_value * w.den
        step == IF max_value - min_value > 0 THEN w.num ELSE 0
        left(i) == min_value * w.den + (i - 1) * step
        right(i) == IF left(i) + w.num < top THEN left(i) + w.num ELSE top
    IN [i \in 1..bin_count |-> [lo |-> left(i), hi |-> right(i), den |-> w.den,
                                closed |-> (i = bin_count)]]

\* The text of one interval end x/den in a label (line 1813): str(v) when int(v) == v,
\* else f"{v:.2f}", i.e. the value rounded to hundredths
LabelText(x, den) ==
    IF x % den = 0 THEN [kind |-> "int", v |-> x \div den]
    ELSE [kind |-> "2f", v |-> (200 * x + den) \div (2 * den)]

\* self.binned_keys (lines 1810-1815): "[a,b)" for every interval but the last, "[a,b]" for the last
BinnedKeys(intervals) ==
    [i \in 1..Len(intervals) |->
        [lo |-> LabelText(intervals[i].lo, intervals[i].den),
         hi |-> LabelText(intervals[i].hi, intervals[i].den),
         closed |-> (i = Len(intervals))]]

NoBinner ==
    [constructed |-> FALSE, min_value |-> 0, max_value |-> 0, bin_count |-> 0,
     bin_width |-> [num |-> 1, den |-> 1], intervals |-> <<>>, binned_keys |-> <<>>,
     normalize |-> FALSE]

NoCall ==
    [pc |-> "idle", input_dict |-> <<>>, pending |-> {}, index_to_sum |-> <<>>,
     total_sum |-> 0, ignored_sum |-> 0, output |-> <<>>]

\* HistogramKeyBinner.__init__
BinnerNew(min_value, max_value, bin_count, normalize) ==
    /\ ~binner.constructed
    /\ bin_count > 0                                   \* assert self.bin_count > 0
    /\ binner' = [constructed |-> TRUE, min_value |-> min_value, max_value |-> max_value,
                  bin_count |-> bin_count,
                  bin_width |-> BinWidth(min_value, max_value, bin_count),
                  intervals |-> Intervals(min_value, max_value, bin_count),
                  binned_keys |-> BinnedKeys(Intervals(min_value, max_value, bin_count)),
                  normalize |-> normalize]
    /\ UNCHANGED <<bcall, notBinner>>

\* __call__, lines 1821-1823: the accumulators are reset and the loop over the items begins
BinnerCallBegin(d) ==
    /\ binner.constructed
    /\ bcall.pc \in {"idle", "done"}
    /\ bcall' = [pc |-> "loop", input_dict |-> d, pending |-> DOMAIN d,
                 index_to_sum |-> [i \in 1..Len(binner.binned_keys) |-> 0],
                 total_sum |-> 0, ignored_sum |-> 0, output |-> <<>>]
    /\ UNCHANGED <<binner, notBinner>>

\* The list position (1-based) that index_to_sum[i] += v reaches for Python index i,
\* or 0 when Python raises IndexError: a negative i counts from the end of the list.
ListPosition(i, n) ==
    IF 0 <= i /\ i < n THEN i + 1
    ELSE IF -n <= i /\ i < 0 THEN n + i + 1
    ELSE 0

\* Where one item (k, v) of the loop at lines 1824-1832 goes: a bin position, or 0 = ignored
BinTarget(b, k) ==
    LET n == Len(b.binned_keys)
        p == ListPosition(FloorIndex(b, k), n)
    IN IF p # 0 THEN p
       ELSE IF k = b.max_value THEN n     \* except IndexError: index_to_sum[-1] += v
       ELSE 0                             \* ignored_sum += v

\* One iteration of the loop at lines 1824-1832
BinnerCallItem(k) ==
    /\ bcall.pc = "loop"
    /\ k \in bcall.pending
    /\ LET v == bcall.input_dict[k]
           t == BinTarget(binner, k)
       IN bcall' = [bcall EXCEPT
                      !.pending = @ \ {k},
                      !.index_to_sum = IF t # 0 THEN [@ EXCEPT ![t] = @ + v] ELSE @,
                      !.ignored_sum = IF t = 0 THEN @ + v ELSE @,
                      !.total_sum = @ + v]
    /\ UNCHANGED <<binner, notBinner>>

\* The OrderedDict built at lines 1839-1843: output_dict[k] = index_to_sum[i] / den for
\* each label k in order. A label that occurs again overwrites the value and keeps the
\* position of its first occurrence. A weight is kept as the fraction num/den.
OutputDict(keys, sums, den) ==
    LET n == Len(keys)
        first(i) == \A j \in 1..(i - 1) : keys[j] # keys[i]
        last(i) == CHOOSE j \in i..n :
                      /\ keys[j] = keys[i]
                      /\ \A m \in (j + 1)..n : keys[m] # keys[i]
        positions == SelectSeq([i \in 1..n |-> i], first)
    IN [p \in 1..Len(positions) |->
           [key |-> keys[positions[p]], num |-> sums[last(positions[p])], den |-> den]]

\* Lines 1834-1843: the output mapping is returned (den = total_sum when normalize is set)
BinnerCallEnd ==
    /\ bcall.pc = "loop"
    /\ bcall.pending = {}
    /\ ~(binner.normalize /\ bcall.total_sum = 0)      \* ZeroDivisionError otherwise
    /\ bcall' = [bcall EXCEPT
                   !.pc = "done",
                   !.output = OutputDict(binner.binned_keys, bcall.index_to_sum,
                                         IF binner.normalize THEN bcall.total_sum ELSE 1)]
    /\ UNCHANGED <<binner, notBinner>>

InitBinner ==
    /\ binner = NoBinner
    /\ bcall = NoCall

NextBinner ==
    \/ \E r \in BinnerRanges, c \in BinnerBinCounts, nz \in BOOLEAN :
           BinnerNew(r[1], r[2], c, nz)
    \/ \E d \in BinnerDicts : BinnerCallBegin(d)
    \/ \E k \in BinnerKeys : BinnerCallItem(k)
    \/ BinnerCallEnd


(***************************************************************************)
(* Descriptive statistics and numpy.histogram                              *)
(***************************************************************************)

\* A statistic that may be a fraction: num/den, or a non-finite float (den = 1)
Frac(n, d) == [num |-> n, den |-> d]

\* Series.min() / Series.max() of pandas: NaN is skipped, and NaN is the result of no value
SeriesMin(s) == IF DropNa(s) = <<>> THEN NaN ELSE SetMin(Range(DropNa(s)))
SeriesMax(s) == IF DropNa(s) = <<>> THEN NaN ELSE SetMax(Range(DropNa(s)))

\* Series.mean() of pandas: NaN is skipped; +inf and -inf together give NaN
SeriesMean(s) ==
    LET t == DropNa(s)
    IN IF t = <<>> THEN Frac(NaN, 1)
       ELSE IF PInf \in Range(t) /\ NInf \in Range(t) THEN Frac(NaN, 1)
       ELSE IF PInf \in Range(t) THEN Frac(PInf, 1)
       ELSE IF NInf \in Range(t) THEN Frac(NInf, 1)
       ELSE Frac(SumSeq(t), Len(t))

\* Series.std() of pandas (ddof = 1), kept as its square, the sample variance
\* (n * sum(x^2) - sum(x)^2) / (n * (n - 1)); NaN for fewer than two values or non-finite ones
SeriesStd(s) ==
    LET t == DropNa(s)
        n == Len(t)
    IN IF n < 2 \/ \E i \in DOMAIN t : ~IsFinite(t[i]) THEN Frac(NaN, 1)
       ELSE Frac(n * SumSeq([i \in DOMAIN t |-> t[i] * t[i]]) - SumSeq(t) * SumSeq(t),
                 n * (n - 1))

\* The values of a sequence in ascending order
RECURSIVE Sorted(_)
Sorted(s) ==
    IF s = <<>> THEN <<>>
    ELSE LET m == SetMin(Range(s))
             i == CHOOSE j \in DOMAIN s : s[j] = m
         IN <<m>> \o Sorted(SubSeq(s, 1, i - 1) \o SubSeq(s, i + 1, Len(s)))

\* Series.describe()["50%"] of pandas: the median of the values that are not NaN
SeriesMedian(s) ==
    LET t == Sorted(DropNa(s))
        n == Len(t)
        a == t[(n + 1) \div 2]
        b == t[(n \div 2) + 1]
    IN IF n = 0 THEN Frac(NaN, 1)
       ELSE IF a = b THEN Frac(a, 1)
       ELSE IF IsInf(a) /\ IsInf(b) THEN Frac(NaN, 1)
       ELSE IF IsInf(a) THEN Frac(a, 1)
       ELSE IF IsInf(b) THEN Frac(b, 1)
       ELSE Frac(a + b, 2)

\* scipy.stats.describe(values).minmax: NaN propagates to both ends
DescribeMinMax(s) ==
    IF \E i \in DOMAIN s : IsNaN(s[i]) THEN <<NaN, NaN>>
    ELSE <<SetMin(Range(s)), SetMax(Range(s))>>

\* Whether numpy.histogram accepts range=(lo, hi): it raises ValueError when
\* lo > hi and when an end is not finite
HistogramRangeOk(lo, hi) == IsFinite(lo) /\ IsFinite(hi) /\ lo <= hi

\* The range numpy.histogram bins over: an empty range (lo == hi) is widened by 0.5 each side.
\* Ends are numerators over 2 * Unit.
HistogramEdges(lo, hi) ==
    IF lo = hi THEN <<2 * lo - Unit, 2 * hi + Unit>> ELSE <<2 * lo, 2 * hi>>

\* The bin (1-based) numpy.histogram counts a sample x of [lo, hi] in: bins are
\* half-open [edge, next edge), the last one is closed
HistogramBinOf(x, lo, hi, bins) ==
    LET e == HistogramEdges(lo, hi)
        i == (((2 * x - e[1]) * bins) \div (e[2] - e[1])) + 1
    IN IF i > bins THEN bins ELSE i

\* A histogram whose last bin is half-open like the others
HistogramHalfOpen(a, lo, hi, bins) ==
    [b \in 1..bins |->
        Cardinality({i \in DOMAIN a : /\ lo <= a[i] /\ a[i] < hi
                                      /\ HistogramBinOf(a[i], lo, hi, bins) = b})]

\* numpy.histogram(a, bins=bins, range=(lo, hi), density=False)[0]: the samples outside
\* [lo, hi] (the infinite ones among them) are not counted
Histogram(a, lo, hi, bins) ==
    [b \in 1..bins |->
        Cardinality({i \in DOMAIN a : /\ lo <= a[i] /\ a[i] <= hi
                                      /\ HistogramBinOf(a[i], lo, hi, bins) = b})]

(***************************************************************************)
(* ScalarNumericAnalyzer and ScalarNumericSummary (Analyzer.get_df)        *)
(***************************************************************************)

\* Bound of the number of rows of an analysed table
MaxRows == 2

\* Render mode names in use; only "histogram" is a valid mode of ScalarNumericAnalyzer
Modes == {"histogram", "bogus"}
ValidRenderModes == {"histogram"}
\* The values a cell of the numeric column "x" takes, and the values of the grouping column
SummaryValues == {0, 1, 3, PInf, NInf, NaN}
GroupKeys == {"a", "b"}
\* Group labels in case-insensitive alphabetical order
LabelOrder == <<"a", "b">>
\* plot_min / plot_max of the column's ColumnProperties, and histogram_bin_count
PlotBounds == {None, Some(1)}
HistogramBinCounts == {1, 3}

\* The tables (DataFrames) of at most n rows with a grouping column and a numeric column
Tables(K, V, n) == UNION {[1..m -> [key : K, x : V]] : m \in 0..n}

\* All orders an iteration over a Python set may take
Orders(S) == {q \in [1..Cardinality(S) -> S] : \A i, j \in DOMAIN q : q[i] = q[j] => i = j}

\* The values of the rows of a table in column "x"
ColumnX(rows) == [i \in DOMAIN rows |-> rows[i].x]

\* The numeric columns of an analysed table, in the order of full_df.columns. The tables
\* analysed hold in every numeric column the values of column "x", so that the record
\* of a row stands for the table row with one cell per numeric column.
NumericColumns == {<<"x">>, <<"x", "y">>, <<"x", "w_render-z">>}
\* full_df[c] for a numeric column c
Column(rows, c) == ColumnX(rows)

\* The arguments of a get_df call other than full_df and group_by; "None" stands for None
\* and render_kwargs holds the names of the extra rendering keyword arguments
DefaultArgs ==
    [target_columns_given |-> FALSE, target_columns |-> <<>>, output_plot_dir |-> "None",
     selected_render_modes_given |-> FALSE, selected_render_modes |-> {},
     show_global |-> "None", show_count |-> TRUE, render_kwargs |-> {}]

NoAnalyzer ==
    [constructed |-> FALSE, raised |-> FALSE,
     cls_selected_render_modes |-> ValidRenderModes,
     valid_render_modes |-> {}, selected_render_modes |-> {},
     plot_min |-> None, plot_max |-> None, histogram_bin_count |-> 0, show_global |-> TRUE]

NoGetDf ==
    [pc |-> "idle", full_df |-> <<>>, numeric_columns |-> <<>>, group_by |-> FALSE,
     args |-> DefaultArgs, arg_modes |-> {}, arg_given |-> FALSE,
     selected_render_modes |-> {}, target_columns |-> <<>>, columns |-> <<>>,
     declared |-> <<>>, output_plot_dir |-> "None", show_global |-> TRUE, show_count |-> TRUE,
     render_kwargs |-> {}, entry |-> "get_df",
     xmin_xmax |-> <<0, 0>>, groups |-> <<>>, rows |-> <<>>, jobs |-> <<>>, error |-> "none"]

\* The class attribute selected_render_modes is set (by an .ini file through
\* managed_attributes, or by assignment), before or after an instance is created
ClassSetSelectedRenderModes(modes) ==
    /\ ~analyzer.raised
    /\ call.pc = "idle"
    /\ analyzer' = [analyzer EXCEPT !.cls_selected_render_modes = modes]
    /\ UNCHANGED <<call, notAnalyzer>>

\* Analyzer.__init__ (lines 113-122), with the column properties and the class attributes
\* histogram_bin_count and show_global the instance is created under
AnalyzerNew(plot_min, plot_max, bins, show_global) ==
    /\ ~analyzer.constructed /\ ~analyzer.raised
    /\ IF analyzer.cls_selected_render_modes \subseteq ValidRenderModes
       THEN analyzer' = [analyzer EXCEPT
                           !.constructed = TRUE,
                           !.valid_render_modes = ValidRenderModes,
                           !.selected_render_modes = analyzer.cls_selected_render_modes,
                           !.plot_min = plot_min, !.plot_max = plot_max,
                           !.histogram_bin_count = bins, !.show_global = show_global]
       ELSE analyzer' = [analyzer EXCEPT !.raised = TRUE]      \* raise SyntaxError
    /\ UNCHANGED <<call, notAnalyzer>>

\* analyzer.selected_render_modes = modes, on the instance, after construction
SetSelectedRenderModes(modes) ==
    /\ analyzer.constructed
    /\ call.pc = "idle"
    /\ analyzer' = [analyzer EXCEPT !.selected_render_modes = modes]
    /\ UNCHANGED <<call, notAnalyzer>>

\* A column definition of the summary table: the statistic or render mode of a target column
StatColumn(c, descriptor) == [col |-> c, kind |-> descriptor, mode |-> ""]
RenderColumn(c, mode) == [col |-> c, kind |-> "render", mode |-> mode]
Descriptors == <<"min", "max", "avg", "std", "median">>

\* Target column names that contain the text "_render-"
RenderInfixNames == {"w_render-z"}
\* "_render-" in k, for the name k of a column definition (lines 414 and 416)
HasRenderInfix(cdef) == cdef.kind = "render" \/ cdef.col \in RenderInfixNames

\* Render columns of the first mode only
RenderColumnsOneMode(mode_order, target_columns) ==
    [i \in 1..(IF mode_order = <<>> THEN 0 ELSE Len(target_columns)) |->
        RenderColumn(target_columns[i], mode_order[1])]

\* AnalyzerSummary.__init__ (lines 370-380): one render column per (mode, target column),
\* the modes taken in the order mode_order of analyzer.selected_render_modes
RenderColumns(mode_order, target_columns) ==
    [i \in 1..(Len(mode_order) * Len(target_columns)) |->
        RenderColumn(target_columns[((i - 1) % Len(target_columns)) + 1],
                     mode_order[((i - 1) \div Len(target_columns)) + 1])]

\* ScalarNumericSummary.__init__ (lines 533-540): five statistics columns per target column
StatColumns(target_columns) ==
    [i \in 1..(5 * Len(target_columns)) |->
        StatColumn(target_columns[((i - 1) \div 5) + 1], Descriptors[((i - 1) % 5) + 1])]

\* AnalyzerSummary.move_render_columns_back
MoveRenderColumnsBack(cols) ==
    SelectSeq(cols, LAMBDA c : ~HasRenderInfix(c)) \o SelectSeq(cols, HasRenderInfix)

\* The groups of a summary: one per value of the group_by column, in label order, and
\* the group "all" when show_global is set or no group_by is given
SplitGroups(full_df, group_by, show_global) ==
    LET byKey(k) == SelectSeq(full_df, LAMBDA r : r.key = k)
        present == SelectSeq(LabelOrder, LAMBDA k : byKey(k) # <<>>)
        keyed == [i \in DOMAIN present |-> [label |-> present[i], df |-> byKey(present[i])]]
    IN (IF group_by THEN keyed ELSE <<>>)
       \o (IF show_global \/ ~group_by THEN <<[label |-> "all", df |-> full_df]>> ELSE <<>>)

\* An entry of the log of the column functions invoked for a row
Invocation(fun, c, mode) == [fun |-> fun, col |-> c, mode |-> mode]

\* The summary row of a group before any column function has run
EmptyRow(group) ==
    [group_label |-> group.label, group_size |-> Len(group.df), filled |-> {},
     stat_calls |-> 0, calls |-> <<>>,
     min |-> 0, max |-> 0, avg |-> Frac(0, 1), std |-> Frac(0, 1), median |-> Frac(0, 1),
     plds |-> [lo |-> 0, hi |-> 0, widened |-> FALSE, counts |-> <<>>, mass |-> 0,
               logged |-> FALSE, y_den |-> 1, err_y |-> Frac(0, 1)],
     outcome |-> "ok"]

\* A description that sets the minimum only
SetScalarDescriptionMinOnly(row, c, series) ==
    [row EXCEPT
        !.min = SeriesMin(series), !.stat_calls = @ + 1,
        !.calls = Append(@, Invocation("set_scalar_description", c, "")),
        !.filled = @ \cup {StatColumn(c, "min")}]

\* ScalarNumericSummary.set_scalar_description (lines 547-557)
SetScalarDescription(row, c, series) ==
    [row EXCEPT
        !.min = SeriesMin(series), !.max = SeriesMax(series), !.avg = SeriesMean(series),
        !.std = SeriesStd(series), !.median = SeriesMedian(series),
        !.stat_calls = @ + 1, !.calls = Append(@, Invocation("set_scalar_description", c, "")),
        !.filled = @ \cup {StatColumn(c, Descriptors[i]) : i \in DOMAIN Descriptors}]


\* The analysis range of lines 577-589: plot_min / plot_max when set, else the range of
\* the whole table; an empty range [v, v] becomes [v, v + 1]
AnalysisRange(plot_min, plot_max, xmin_xmax) ==
    LET lo == IF plot_min.some THEN plot_min.v ELSE xmin_xmax[1]
        hi == IF plot_max.some THEN plot_max.v ELSE xmin_xmax[2]
    IN IF FEqual(lo, hi) THEN [lo |-> lo, hi |-> PlusOne(lo), widened |-> TRUE]
       ELSE [lo |-> lo, hi |-> hi, widened |-> FALSE]

\* A justification that accepts infinite values only
JustifiedDifferenceOnlyInf(row, lo, hi) == IsInf(row.min) \/ IsInf(row.max)

\* Lines 603-611: whether a difference between the histogram mass and the number of
\* samples is justified (infinite values in the group, or a range narrower than the group's)
JustifiedDifference(row, lo, hi) ==
    \/ IsInf(row.min) \/ IsInf(row.max)
    \/ FGreater(lo, row.min) \/ FLess(hi, row.max)

\* ScalarNumericSummary.compute_plottable_data_one_case (lines 559-645) for the group with
\* the values series in column c. outcome names the exception raised, if any.
ComputePlottableDataOneCase(row_in, c, mode, series, an, xmin_xmax) ==
    LET row == [row_in EXCEPT
                  !.calls = Append(@, Invocation("compute_plottable_data_one_case", c, mode))]
        r == AnalysisRange(an.plot_min, an.plot_max, xmin_xmax)
        bins == an.histogram_bin_count
        counts == Histogram(DropNa(series), r.lo, r.hi, bins)
        mass == SumSeq(counts)
        differs == mass # Len(series)
        y_den == IF mass # 0 THEN mass ELSE 1
        base == [lo |-> r.lo, hi |-> r.hi, widened |-> r.widened, counts |-> <<>>,
                 mass |-> 0, logged |-> FALSE, y_den |-> 1, err_y |-> Frac(0, 1)]
    IN IF mode \notin an.valid_render_modes
       THEN [row EXCEPT !.outcome = "ValueError: invalid render mode"]
       ELSE IF ~HistogramRangeOk(r.lo, r.hi)
       THEN [row EXCEPT !.plds = base, !.outcome = "ValueError: histogram range"]
       ELSE IF StatColumn(c, "min") \notin row.filled       \* row[f"{column_name}_min"],
       THEN [row EXCEPT !.outcome = "KeyError: statistics not set"]     \* or _avg
       ELSE IF differs /\ ~JustifiedDifference(row, r.lo, r.hi)
       THEN [row EXCEPT !.plds = [base EXCEPT !.counts = counts, !.mass = mass],
                        !.outcome = "ValueError: not all samples included"]
       ELSE [row EXCEPT
               !.plds = [base EXCEPT
                           !.counts = counts, !.mass = mass, !.logged = differs,
                           !.y_den = y_den,
                           !.err_y = Frac(SetMin(Range(counts)) + SetMax(Range(counts)),
                                          2 * y_den)],
               !.filled = @ \cup {RenderColumn(c, mode)}]

\* The column functions of one group run in the order of the column definitions; a
\* column already present in the row is not computed again, and an exception ends the row
RECURSIVE ComputeRow(_, _, _, _, _)
ComputeRow(row, cols, series, an, xmin_xmax) ==
    IF cols = <<>> \/ row.outcome # "ok" THEN row
    ELSE LET cdef == Head(cols)
             next == IF cdef \in row.filled THEN row
                     ELSE IF cdef.kind = "render"
                     THEN ComputePlottableDataOneCase(row, cdef.col, cdef.mode, series,
                                                      an, xmin_xmax)
                     ELSE SetScalarDescription(row, cdef.col, series)
         IN ComputeRow(next, Tail(cols), series, an, xmin_xmax)

\* Analyzer.get_df (lines 163-188) up to the built summary table, for a table with the
\* numeric columns numeric_columns and the caller's arguments args: get_df hands only self
\* and full_df to the normalizing wrapper (line 188), so none of target_columns,
\* output_plot_dir, selected_render_modes, show_global, show_count and the rendering
\* keyword arguments reaches it; the wrapper (lines 296-310) takes the modes and show_global
\* of the class attributes, options.plot_dir, show_count = True and, target_columns being
\* None, the numeric columns of the first row. build_summary_atable declares the columns
\* (lines 370-380, 532-545) in the order mode_order of the instance's modes.
GetDfBegin(full_df, numeric_columns, group_by, args, mode_order) ==
    /\ analyzer.constructed
    /\ call.pc = "idle"
    /\ mode_order \in Orders(analyzer.selected_render_modes)
    /\ LET target_columns == numeric_columns
           added == RenderColumns(mode_order, target_columns) \o StatColumns(target_columns)
           declared == MoveRenderColumnsBack(added)
           started == [NoGetDf EXCEPT
                          !.full_df = full_df, !.numeric_columns = numeric_columns,
                          !.group_by = group_by, !.args = args,
                          !.arg_given = args.selected_render_modes_given,
                          !.arg_modes = args.selected_render_modes,
                          !.selected_render_modes = analyzer.cls_selected_render_modes,
                          !.output_plot_dir = "options.plot_dir",
                          !.show_global = analyzer.show_global,
                          !.show_count = TRUE, !.render_kwargs = {}]
       IN IF full_df = <<>>
          THEN call' = [started EXCEPT !.pc = "raised",
                                       !.error = "IndexError: empty table"]  \* full_df.iloc[0]
          ELSE call' = [started EXCEPT
                           !.pc = "compute",
                           !.target_columns = target_columns,
                           !.declared = added, !.columns = declared,
                           !.xmin_xmax = DescribeMinMax(Column(full_df, target_columns[1])),
                           !.groups = SplitGroups(full_df, group_by, analyzer.show_global)]
    /\ UNCHANGED <<analyzer, notAnalyzer>>

\* summary_table.get_df (line 169): the row of the next group is computed
ComputeGroup ==
    /\ call.pc = "compute"
    /\ Len(call.rows) < Len(call.groups)
    /\ LET g == call.groups[Len(call.rows) + 1]
           row == ComputeRow(EmptyRow(g), call.columns, Column(g.df, call.target_columns[1]),
                             analyzer, call.xmin_xmax)
       IN call' = [call EXCEPT
                     !.rows = Append(@, row),
                     !.pc = IF row.outcome = "ok" THEN "compute" ELSE "raised",
                     !.error = IF row.outcome = "ok" THEN "none" ELSE row.outcome]
    /\ UNCHANGED <<analyzer, notAnalyzer>>

\* Pairs of the first target column only
RenderPairsFirstColumn(q, target_columns) ==
    [i \in 1..Len(q) |-> [mode |-> q[i], column |-> target_columns[1]]]

\* The (mode, column) pairs of render_all_modes (lines 210-211), the modes in the order q
RenderPairs(q, target_columns) ==
    [i \in 1..(Len(q) * Len(target_columns)) |->
        [mode |-> q[((i - 1) \div Len(target_columns)) + 1],
         column |-> target_columns[((i - 1) % Len(target_columns)) + 1]]]

\* Analyzer.update_render_kwargs_one_case (lines 246-273) and its ScalarNumericAnalyzer
\* extension (lines 485-501): the rendering job of one (column, mode) pair
RenderJob(pair, rows, group_by, output_plot_dir, show_count) ==
    [column |-> pair.column, mode |-> pair.mode,
     output_plot_path |-> [dir |-> output_plot_dir, class |-> "ScalarNumericAnalyzer",
                           column |-> pair.column, groupby |-> group_by],
     groups |-> [i \in DOMAIN rows |-> rows[i].group_label],
     y_labels |-> [i \in DOMAIN rows |->
                      [group |-> rows[i].group_label, count |-> rows[i].group_size,
                       with_count |-> show_count]],
     x_min |-> SetMin({rows[i].min : i \in DOMAIN rows}),
     x_max |-> SetMax({rows[i].max : i \in DOMAIN rows}),
     status |-> "submitted"]

\* Analyzer.render_all_modes (lines 208-223): one job is submitted per (mode, column) pair;
\* a pair whose render column is not in the summary raises KeyError (line 253)
RenderAllModes(q) ==
    /\ call.pc = "compute"
    /\ Len(call.rows) = Len(call.groups)
    /\ q \in Orders(call.selected_render_modes)
    /\ LET pairs == RenderPairs(q, call.target_columns)
           known(i) == RenderColumn(pairs[i].column, pairs[i].mode) \in Range(call.columns)
           bad == {i \in DOMAIN pairs : ~known(i)}
           n == IF bad = {} THEN Len(pairs) ELSE SetMin(bad) - 1
       IN call' = [call EXCEPT
                     !.jobs = [i \in 1..n |-> RenderJob(pairs[i], call.rows, call.group_by,
                                                        call.output_plot_dir, call.show_count)],
                     !.pc = IF bad = {} THEN "join" ELSE "raised",
                     !.error = IF bad = {} THEN "none" ELSE "KeyError: render column"]
    /\ UNCHANGED <<analyzer, notAnalyzer>>

\* The summary table a caller hands to render_all_modes: the row of the group "all" of a
\* one-row table, with every column of the summary set
SummaryRow(columns) ==
    [EmptyRow([label |-> "all", df |-> <<[key |-> "a", x |-> 0]>>]) EXCEPT
        !.filled = Range(columns)]

\* A call of Analyzer.render_all_modes (lines 190-199) by a caller, with a summary table
\* that has the render columns of the modes summary_modes for target_columns
RenderAllModesBegin(summary_modes, target_columns, group_by, selected_render_modes, output_plot_dir, show_count) ==
    /\ analyzer.constructed
    /\ call.pc = "idle"
    /\ LET columns == MoveRenderColumnsBack(
                          RenderColumns(summary_modes, target_columns)
                          \o StatColumns(target_columns))
       IN call' = [NoGetDf EXCEPT
                     !.entry = "render_all_modes", !.pc = "compute",
                     !.group_by = group_by, !.target_columns = target_columns,
                     !.columns = columns, !.selected_render_modes = selected_render_modes,
                     !.output_plot_dir = output_plot_dir, !.show_count = show_count,
                     !.groups = <<[label |-> "all", df |-> <<[key |-> "a", x |-> 0]>>]>>,
                     !.rows = <<SummaryRow(columns)>>]
    /\ UNCHANGED <<analyzer, notAnalyzer>>

\* A rendering job ends in the pool, with its image written or with an exception
JobEnd(j, ok) ==
    /\ j \in DOMAIN call.jobs
    /\ call.jobs[j].status = "submitted"
    /\ call' = [call EXCEPT !.jobs[j].status = IF ok THEN "done" ELSE "failed"]
    /\ UNCHANGED <<analyzer, notAnalyzer>>

\* The join of lines 225-230 ends: every job is done and get_df returns summary_df
\* (line 181), or a job has failed and its exception is raised
JoinEnd ==
    /\ call.pc = "join"
    /\ \/ /\ \A j \in DOMAIN call.jobs : call.jobs[j].status = "done"
          /\ call' = [call EXCEPT !.pc = "returned"]
       \/ /\ \E j \in DOMAIN call.jobs : call.jobs[j].status = "failed"
          /\ call' = [call EXCEPT !.pc = "raised", !.error = "job failed"]
    /\ UNCHANGED <<analyzer, notAnalyzer>>

InitAnalyzer ==
    /\ analyzer = NoAnalyzer
    /\ call = NoGetDf

\* The analyzer created with its default modes and analysing any table
NextAnalyzer ==
    \/ /\ ~analyzer.constructed
       /\ \E lo \in PlotBounds, hi \in PlotBounds, bins \in HistogramBinCounts,
             g \in BOOLEAN :
              AnalyzerNew(lo, hi, bins, g)
    \/ /\ call.pc = "idle"
       /\ \E t \in Tables(GroupKeys, SummaryValues, MaxRows), by \in BOOLEAN,
             q \in Orders(ValidRenderModes) :
              GetDfBegin(t, <<"x">>, by, DefaultArgs, q)
    \/ ComputeGroup
    \/ \E q \in Orders(ValidRenderModes) : RenderAllModes(q)
    \/ \E j \in 1..Cardinality(Modes), ok \in BOOLEAN : JobEnd(j, ok)
    \/ JoinEnd

(***************************************************************************)
(* The grouping analyzers with analyze_df (ScalarDistributionAnalyzer,     *)
(* HistogramDistributionAnalyzer, OverlappedHistogramAnalyzer,             *)
(* TwoColumnScatterAnalyzer, ScalarDictAnalyzer)                           *)
(***************************************************************************)

\* The values of a grouping column: strings, booleans and the missing value. A group name
\* is one of these, and two names are the same dictionary key when type and text agree.
KStr(text) == [type |-> "str", val |-> text]
KBool(text) == [type |-> "bool", val |-> text]
KNaN == [type |-> "nan", val |-> ""]
AllLabel == KStr("all")

\* The order DataFrame.groupby yields its groups in: the sorted key values, booleans
\* before strings; rows whose key is missing belong to no group
GroupbyOrder == <<KBool("True"), KStr("True"), KStr("a"), KStr("all"), KStr("b")>>
KeysOf(df) == {df[i].key : i \in DOMAIN df}
Groupby(df) == SelectSeq(GroupbyOrder, LAMBDA k : k \in KeysOf(df))
GroupDf(df, k) == SelectSeq(df, LAMBDA r : r.key = k)

\* str(group_name) if isinstance(group_name, bool) else group_name (lines 911 and 1093)
Stringified(k) == IF k.type = "bool" THEN KStr(k.val) ELSE k

\* Python dictionaries (and the index of analysis_df) as sequences of entries in
\* insertion order: d[k] = v replaces the value of an existing key where it stands
DictHas(d, k) == \E i \in DOMAIN d : d[i].k = k
DictGet(d, k) == d[CHOOSE i \in DOMAIN d : d[i].k = k].v
DictSet(d, k, v) ==
    IF DictHas(d, k) THEN [i \in DOMAIN d |-> IF d[i].k = k THEN [k |-> k, v |-> v] ELSE d[i]]
    ELSE Append(d, [k |-> k, v |-> v])
DictKeys(d) == {d[i].k : i \in DOMAIN d}

\* math.floor and math.ceil of a finite number
Floor(x) == (x \div Unit) * Unit
Ceil(x) == -(((-x) \div Unit) * Unit)

\* get_scalar_min_max_by_column (lines 1100-1137) for one column: the limit that is not
\* given is the non-NaN minimum / maximum of the column (0 when there is none), and both
\* computed limits are rounded outwards when the maximum exceeds 1. math.floor and
\* math.ceil raise OverflowError on an infinite value.
ColumnLimit(series, isMin) ==
    LET m == IF isMin THEN SeriesMin(series) ELSE SeriesMax(series)
    IN IF IsInf(m) \/ IsNaN(m)
       THEN IF DropNa(series) = <<>> THEN 0
            ELSE IF isMin THEN SetMin(Range(DropNa(series))) ELSE SetMax(Range(DropNa(series)))
       ELSE m
GetScalarMinMaxByColumn(series, plot_min, plot_max) ==
    LET lo == IF plot_min.some THEN plot_min.v ELSE ColumnLimit(series, TRUE)
        hi == IF plot_max.some THEN plot_max.v ELSE ColumnLimit(series, FALSE)
        rounds == FGreater(hi, Unit)
    IN IF rounds /\ ((~plot_min.some /\ IsInf(lo)) \/ (~plot_max.some /\ IsInf(hi)))
       THEN [outcome |-> "OverflowError", lo |-> lo, hi |-> hi]
       ELSE [outcome |-> "ok",
             lo |-> IF rounds /\ ~plot_min.some THEN Floor(lo) ELSE lo,
             hi |-> IF rounds /\ ~plot_max.some THEN Ceil(hi) ELSE hi]

\* scalar_column_to_pds (lines 1027-1086): the BarData of one group. The relative
\* frequencies are counts / y_den.
ScalarColumnToPds(series, min_max, bins) ==
    LET widened == FEqual(min_max.lo, min_max.hi)
        lo == min_max.lo
        hi == IF widened THEN PlusOne(lo) ELSE min_max.hi
        counts == Histogram(series, lo, hi, bins)
        mass == SumSeq(counts)
    IN IF ~HistogramRangeOk(lo, hi)
       THEN [outcome |-> "ValueError: histogram range", lo |-> lo, hi |-> hi,
             widened |-> widened, counts |-> <<>>, y_den |-> 1]
       ELSE [outcome |-> "ok", lo |-> lo, hi |-> hi, widened |-> widened, counts |-> counts,
             y_den |-> IF mass > 0 THEN mass ELSE IF Len(series) > 0 THEN Len(series) ELSE 1]

\* pool_scalar_into_analysis_df (lines 1089-1097) with the count of line 915 / 927: the
\* row of analysis_df of one label
PooledRow(df) ==
    [count |-> Len(df), min |-> SeriesMin(ColumnX(df)), max |-> SeriesMax(ColumnX(df)),
     avg |-> SeriesMean(ColumnX(df)), std |-> SeriesStd(ColumnX(df))]

NoAnalyzeDf ==
    [pc |-> "idle", cls |-> "", full_df |-> <<>>, group_by |-> FALSE, show_global |-> FALSE,
     show_count |-> FALSE, plot_min |-> None, plot_max |-> None, hist_bin_count |-> 0,
     min_max |-> [outcome |-> "ok", lo |-> 0, hi |-> 0],
     pending |-> <<>>, analysis_df |-> <<>>, label_column_to_pds |-> <<>>,
     lengths_by_group_name |-> <<>>, jobs |-> <<>>, error |-> "none",
     target_columns |-> <<"x">>, next_column |-> 1]

\* ScalarDistributionAnalyzer.analyze_df, lines 890-904: the limits of the column are
\* computed before any group is looked at. group_by is the grouping column or None.
DistBegin(full_df, group_by, show_global, show_count, plot_min, plot_max, bins) ==
    /\ adf.pc = "idle"
    /\ LET mm == GetScalarMinMaxByColumn(ColumnX(full_df), plot_min, plot_max)
       IN adf' = [NoAnalyzeDf EXCEPT
                    !.cls = "ScalarDistributionAnalyzer",
                    !.pc = IF mm.outcome = "ok" THEN "groups" ELSE "raised",
                    !.error = IF mm.outcome = "ok" THEN "none" ELSE mm.outcome,
                    !.full_df = full_df, !.group_by = group_by, !.show_global = show_global,
                    !.show_count = show_count, !.plot_min = plot_min, !.plot_max = plot_max,
                    !.hist_bin_count = bins, !.min_max = mm,
                    !.pending = IF group_by THEN Groupby(full_df) ELSE <<>>]
    /\ UNCHANGED notAdf

\* One pass of the analysis of a group (lines 913-924 and 927-938) under the name label
DistProcess(state, label, df) ==
    LET pds == ScalarColumnToPds(ColumnX(df), state.min_max, state.hist_bin_count)
        pooled == [state EXCEPT !.analysis_df = DictSet(@, label, PooledRow(df))]
    IN IF pds.outcome # "ok"
       THEN [pooled EXCEPT !.pc = "raised", !.error = pds.outcome]
       ELSE [pooled EXCEPT
               !.label_column_to_pds = DictSet(@, label, pds),
               !.lengths_by_group_name = DictSet(@, label, Len(df))]

\* Lines 910-924: the next group of full_df.groupby(group_by)
DistGroup ==
    /\ adf.cls = "ScalarDistributionAnalyzer"
    /\ adf.pc = "groups"
    /\ adf.pending # <<>>
    /\ LET k == Head(adf.pending)
       IN adf' = DistProcess([adf EXCEPT !.pending = Tail(@)], Stringified(k),
                             GroupDf(adf.full_df, k))
    /\ UNCHANGED notAdf

\* Lines 926-938: after the groups, the group "all" over the whole table
DistGlobal ==
    /\ adf.cls = "ScalarDistributionAnalyzer"
    /\ adf.pc = "groups"
    /\ adf.pending = <<>>
    /\ LET done == IF adf.show_global \/ ~adf.group_by
                   THEN DistProcess(adf, AllLabel, adf.full_df) ELSE adf
       IN adf' = IF done.pc = "raised" THEN done ELSE [done EXCEPT !.pc = "render"]
    /\ UNCHANGED notAdf

\* Lines 967-974: the largest relative frequency of any BarData, None if there is none
FracLeq(a, b) == a.num * b.den <= b.num * a.den
BarDataYMax(pds_by_group_name) ==
    LET heights == {Frac(pds_by_group_name[i].v.counts[b], pds_by_group_name[i].v.y_den) :
                        i \in DOMAIN pds_by_group_name,
                        b \in 1..Len(pds_by_group_name[1].v.counts)}
    IN IF pds_by_group_name = <<>> THEN [some |-> FALSE, v |-> Frac(0, 1)]
       ELSE [some |-> TRUE,
             v |-> CHOOSE f \in heights : \A g \in heights : FracLeq(g, f)]

\* Lines 944-1020 for the one target column: the rendering job of the column is submitted
DistRender ==
    /\ adf.cls = "ScalarDistributionAnalyzer"
    /\ adf.pc = "render"
    /\ LET lens == adf.lengths_by_group_name
           job == [output_plot_path |-> [name |-> "distribution", groupby |-> adf.group_by,
                                         column |-> "x"],
                   pds_by_group_name |-> adf.label_column_to_pds,
                   y_max |-> BarDataYMax(adf.label_column_to_pds),
                   y_labels_by_group_name |->
                       [i \in DOMAIN lens |->
                           [k |-> lens[i].k,
                            v |-> [group |-> lens[i].k, with_count |-> adf.show_count,
                                   count |-> lens[i].v]]],
                   status |-> "submitted"]
       IN adf' = [adf EXCEPT !.jobs = <<job>>, !.pc = "join"]
    /\ UNCHANGED notAdf

\* The rendering job ends, with its image written or with an exception
DistJobEnd(ok) ==
    /\ adf.cls = "ScalarDistributionAnalyzer"
    /\ adf.pc = "join"
    /\ adf.jobs[1].status = "submitted"
    /\ adf' = [adf EXCEPT !.jobs[1].status = IF ok THEN "done" ELSE "failed"]
    /\ UNCHANGED notAdf

\* ray.get(expected_return_ids) and the return of analysis_df (lines 1022-1024)
DistEnd ==
    /\ adf.cls = "ScalarDistributionAnalyzer"
    /\ adf.pc = "join"
    /\ adf.jobs[1].status # "submitted"
    /\ adf' = [adf EXCEPT !.pc = IF adf.jobs[1].status = "done" THEN "returned" ELSE "raised",
                          !.error = IF adf.jobs[1].status = "done" THEN "none"
                                    ELSE "job failed"]
    /\ UNCHANGED notAdf

\* Whether sorted(full_df.groupby(...)) can compare the group names: names of different
\* types (a boolean and a string) raise TypeError
Sortable(keys) == \A i, j \in DOMAIN keys : keys[i].type = keys[j].type

\* The dictionary of group lengths the other grouping analyzers build for a column of a
\* table with rows: HistogramDistributionAnalyzer (lines 1218-1235),
\* OverlappedHistogramAnalyzer (lines 1397-1410), TwoColumnScatterAnalyzer with a column
\* name as group_by (lines 1481-1533) and ScalarDictAnalyzer (lines 2035-2059)
RECURSIVE GroupLengths(_, _)
GroupLengths(df, keys) ==
    IF keys = <<>> THEN <<>>
    ELSE DictSet(GroupLengths(df, SelectSeq(keys, LAMBDA k : k # keys[Len(keys)])),
                 keys[Len(keys)], Len(GroupDf(df, keys[Len(keys)])))
WithGlobal(lengths, df, included) ==
    IF included THEN DictSet(lengths, AllLabel, Len(df)) ELSE lengths
GroupDictionary(cls, df, group_by, show_global) ==
    LET keys == IF group_by THEN Groupby(df) ELSE <<>>
        groups == GroupLengths(df, keys)
    IN IF cls \in {"HistogramDistributionAnalyzer", "OverlappedHistogramAnalyzer"}
          /\ ~Sortable(keys)
       THEN [outcome |-> "TypeError", lengths |-> <<>>]
       ELSE [outcome |-> "ok",
             lengths |->
                CASE cls = "HistogramDistributionAnalyzer" ->
                        WithGlobal(groups, df, show_global \/ ~group_by)
                  [] cls = "OverlappedHistogramAnalyzer" ->
                        WithGlobal(groups, df, groups = <<>> \/ Len(groups) > 1)
                  [] cls = "TwoColumnScatterAnalyzer" ->
                        WithGlobal(groups, df, groups = <<>> \/ show_global)
                  [] cls = "ScalarDictAnalyzer" ->
                        WithGlobal(groups, df, ~group_by \/ show_global)]

OtherGroupingAnalyzers ==
    {"HistogramDistributionAnalyzer", "OverlappedHistogramAnalyzer",
     "TwoColumnScatterAnalyzer", "ScalarDictAnalyzer"}

\* analyze_df of one of the other grouping analyzers, up to the group dictionary of the
\* first of its target columns (column pairs, for TwoColumnScatterAnalyzer), for a table
\* that has rows
GroupsBegin(cls, full_df, target_columns, group_by, show_global, show_count) ==
    /\ adf.pc = "idle"
    /\ cls \in OtherGroupingAnalyzers
    /\ full_df # <<>>
    /\ LET g == GroupDictionary(cls, full_df, group_by, show_global)
       IN adf' = [NoAnalyzeDf EXCEPT
                    !.cls = cls, !.full_df = full_df, !.group_by = group_by,
                    !.show_global = show_global, !.show_count = show_count,
                    !.target_columns = target_columns,
                    !.pc = IF g.outcome = "ok" THEN "grouped" ELSE "raised",
                    !.error = IF g.outcome = "ok" THEN "none" ELSE g.outcome,
                    !.lengths_by_group_name = g.lengths]
    /\ UNCHANGED notAdf

\* The labels of the groups: HistogramDistributionAnalyzer appends the length of a group
\* when show_global is true (lines 1239-1242), OverlappedHistogramAnalyzer appends it
\* always (lines 1412-1413); TwoColumnScatterAnalyzer and ScalarDictAnalyzer hand no
\* group labels to the rendering job
GroupLabels(cls, lengths, show_global, show_count) ==
    IF cls \notin {"HistogramDistributionAnalyzer", "OverlappedHistogramAnalyzer"} THEN <<>>
    ELSE [i \in DOMAIN lengths |->
             [k |-> lengths[i].k,
              v |-> [group |-> lengths[i].k,
                     with_count |-> IF cls = "HistogramDistributionAnalyzer"
                                    THEN show_global ELSE TRUE,
                     count |-> lengths[i].v]]]

\* The rendering job of a target column: parallel_render_plds_by_group.remote(...) of
\* lines 1263, 1428, 1569 and 2149
OtherJob(cls, c, lengths, show_global, show_count) ==
    [column |-> c, output_plot_path |-> [name |-> cls, column |-> c],
     groups |-> DictKeys(lengths),
     y_labels_by_group_name |-> GroupLabels(cls, lengths, show_global, show_count),
     status |-> "submitted"]

\* The jobs are submitted. HistogramDistributionAnalyzer (lines 1208-1274),
\* OverlappedHistogramAnalyzer (lines 1390-1436) and TwoColumnScatterAnalyzer (lines
\* 1473-1580) submit the job of every target column before they wait;
\* ScalarDictAnalyzer (lines 2091-2171) submits the job of the next column and waits for
\* the jobs submitted so far.
OtherRender ==
    /\ adf.pc = "grouped"
    /\ adf.cls \in OtherGroupingAnalyzers
    /\ LET job(i) == OtherJob(adf.cls, adf.target_columns[i], adf.lengths_by_group_name,
                              adf.show_global, adf.show_count)
       IN IF adf.cls = "ScalarDictAnalyzer"
          THEN adf' = [adf EXCEPT !.jobs = Append(@, job(adf.next_column)),
                                  !.next_column = @ + 1, !.pc = "join"]
          ELSE adf' = [adf EXCEPT !.jobs = [i \in DOMAIN adf.target_columns |-> job(i)],
                                  !.next_column = Len(adf.target_columns) + 1,
                                  !.pc = "join"]
    /\ UNCHANGED notAdf

\* A rendering job ends in the pool, with its image written or with an exception
OtherJobEnd(j, ok) ==
    /\ adf.cls \in OtherGroupingAnalyzers
    /\ j \in DOMAIN adf.jobs
    /\ adf.jobs[j].status = "submitted"
    /\ adf' = [adf EXCEPT !.jobs[j].status = IF ok THEN "done" ELSE "failed"]
    /\ UNCHANGED notAdf

\* The wait for the jobs ends. ray.get (lines 1278, 1438, 2171) returns when every job
\* is done and raises the exception of a failed job; ray.wait(expected_returns) (line
\* 1582) returns as soon as one job has ended, whatever its outcome, and raises nothing.
OtherJoinEnd ==
    /\ adf.pc = "join"
    /\ adf.cls \in OtherGroupingAnalyzers
    /\ LET more == adf.next_column <= Len(adf.target_columns)
       IN IF adf.cls = "TwoColumnScatterAnalyzer"
          THEN /\ \E j \in DOMAIN adf.jobs : adf.jobs[j].status # "submitted"
               /\ adf' = [adf EXCEPT !.pc = "returned"]
          ELSE \/ /\ \A j \in DOMAIN adf.jobs : adf.jobs[j].status = "done"
                  /\ adf' = [adf EXCEPT !.pc = IF more THEN "grouped" ELSE "returned"]
               \/ /\ \E j \in DOMAIN adf.jobs : adf.jobs[j].status = "failed"
                  /\ adf' = [adf EXCEPT !.pc = "raised", !.error = "job failed"]
    /\ UNCHANGED notAdf

InitAdf == adf = NoAnalyzeDf

(***************************************************************************)
(* The comparative analyzers with TaskFamily groups                        *)
(* (TwoColumnScatterAnalyzer, TwoColumnLineAnalyzer) and TaskFamily        *)
(***************************************************************************)

TaskNames == {"t1", "t2", "t3"}
ComparedX == {0, 3, PInf}
ComparedY == {0, 1}
\* The tables of at most n rows with a task name and two numeric columns
TaskTables(n) == UNION {[1..m -> [task_name : TaskNames, x : ComparedX, y : ComparedY]] :
                           m \in 0..n}

\* TaskFamily.__init__ (lines 2259-2270)
TaskFamily(label, task_names, name_to_label) ==
    [label |-> label, task_names |-> task_names, name_to_label |-> name_to_label]
\* The lists of families given as group_by
FamilyLists ==
    {<<>>,
     <<TaskFamily("A", <<"t1">>, {"t1"})>>,
     <<TaskFamily("A", <<"t2", "t1">>, {"t1", "t2"})>>,
     <<TaskFamily("B", <<"t2">>, {"t2"}), TaskFamily("A", <<"t1">>, {"t1"})>>}

\* The task names of the rows that are in no family of the list
FamilyTasks(families) == UNION {Range(families[i].task_names) : i \in DOMAIN families}
Unmatched(df, families) == {df[i].task_name : i \in DOMAIN df} \ FamilyTasks(families)

\* numpy.ndarray.mean(): NaN for no value and for infinite values of both signs
NpMean(s) ==
    IF s = <<>> \/ NaN \in Range(s) \/ (PInf \in Range(s) /\ NInf \in Range(s))
    THEN Frac(NaN, 1)
    ELSE IF PInf \in Range(s) THEN Frac(PInf, 1)
    ELSE IF NInf \in Range(s) THEN Frac(NInf, 1)
    ELSE Frac(SumSeq(s), Len(s))

\* a - b for two fractions of float values: NaN for NaN and for the difference of two
\* infinities of the same sign
FracSub(a, b) ==
    IF IsNaN(a.num) \/ IsNaN(b.num) \/ (IsInf(a.num) /\ a.num = b.num) THEN Frac(NaN, 1)
    ELSE IF IsInf(a.num) THEN a
    ELSE IF IsInf(b.num) THEN Frac(IF b.num = PInf THEN NInf ELSE PInf, 1)
    ELSE Frac(a.num * b.den - b.num * a.den, a.den * b.den)

\* numpy.ndarray.max() and min(): NaN propagates
NpMax(s) == IF NaN \in Range(s) THEN NaN ELSE SetMax(Range(s))
NpMin(s) == IF NaN \in Range(s) THEN NaN ELSE SetMin(Range(s))

\* numpy.ndarray.std(), given by its square (the variance, with ddof = 0): NaN for NaN
\* and for infinite values
NpStd(s) ==
    IF \E i \in DOMAIN s : ~IsFinite(s[i]) THEN Frac(NaN, 1)
    ELSE Frac(Len(s) * SumSeq([i \in DOMAIN s |-> s[i] * s[i]]) - SumSeq(s) * SumSeq(s),
              Len(s) * Len(s))

\* The names of the values of a point of a family, in the order of the tuple of lines
\* 1694-1701
PointFields == <<"x", "y", "x_pos", "x_neg", "y_pos", "y_neg", "x_std", "y_std">>

\* Lines 1665-1692: the point of the rows of a task (mean, range above and below the mean
\* and standard deviation of both columns), the non-finite pairs being discarded when
\* they make the sum of the means infinite; no point for no data
TaskPoint(rows) ==
    LET mx == NpMean([i \in DOMAIN rows |-> rows[i].x])
        my == NpMean([i \in DOMAIN rows |-> rows[i].y])
        infinite == /\ ~IsNaN(mx.num) /\ ~IsNaN(my.num)
                    /\ (IsInf(mx.num) \/ IsInf(my.num))
                    /\ ~(IsInf(mx.num) /\ IsInf(my.num) /\ mx.num # my.num)
        kept == IF infinite
                THEN SelectSeq(rows, LAMBDA r : IsFinite(r.x) /\ IsFinite(r.y))
                ELSE rows
        x_data == [i \in DOMAIN kept |-> kept[i].x]
        y_data == [i \in DOMAIN kept |-> kept[i].y]
    IN IF kept = <<>> THEN <<>>
       ELSE <<[x |-> NpMean(x_data), y |-> NpMean(y_data),
               x_pos |-> FracSub(Frac(NpMax(x_data), 1), NpMean(x_data)),
               x_neg |-> FracSub(NpMean(x_data), Frac(NpMin(x_data), 1)),
               y_pos |-> FracSub(Frac(NpMax(y_data), 1), NpMean(y_data)),
               y_neg |-> FracSub(NpMean(y_data), Frac(NpMin(y_data), 1)),
               x_std |-> NpStd(x_data), y_std |-> NpStd(y_data)]>>

\* a == b and a < b for two float values given as fractions: False when one is NaN
FracEq(a, b) ==
    /\ ~IsNaN(a.num) /\ ~IsNaN(b.num)
    /\ IF IsInf(a.num) \/ IsInf(b.num) THEN a.num = b.num
       ELSE a.num * b.den = b.num * a.den
FracLt(a, b) ==
    /\ ~IsNaN(a.num) /\ ~IsNaN(b.num)
    /\ IF IsInf(a.num) \/ IsInf(b.num) THEN a.num < b.num
       ELSE a.num * b.den < b.num * a.den

\* a < b for two tuples of floats: the first values that are not equal decide
TupleLess(a, b) ==
    \E k \in DOMAIN PointFields :
        /\ \A j \in 1..(k - 1) : FracEq(a[PointFields[j]], b[PointFields[j]])
        /\ ~FracEq(a[PointFields[k]], b[PointFields[k]])
        /\ FracLt(a[PointFields[k]], b[PointFields[k]])

\* list.sort of a list of fewer than 64 elements: the initial run is found (count_run) ...
RECURSIVE RunEnd(_, _, _)
RunEnd(pts, descending, i) ==
    IF i > Len(pts) THEN Len(pts)
    ELSE IF TupleLess(pts[i], pts[i - 1]) = descending THEN RunEnd(pts, descending, i + 1)
    ELSE i - 1
CountRun(pts) ==
    IF Len(pts) < 2 THEN [run |-> Len(pts), list |-> pts]
    ELSE LET descending == TupleLess(pts[2], pts[1])
             n == RunEnd(pts, descending, 3)
         IN [run |-> n,
             list |-> IF descending
                      THEN [j \in DOMAIN pts |-> IF j <= n THEN pts[n + 1 - j] ELSE pts[j]]
                      ELSE pts]

\* ... and every later element is inserted at the place a binary search gives it
\* (binarysort); positions l, r and start count from 0
RECURSIVE BinaryPosition(_, _, _, _)
BinaryPosition(pts, pivot, l, r) ==
    IF l >= r THEN l
    ELSE LET p == l + ((r - l) \div 2)
         IN IF TupleLess(pivot, pts[p + 1]) THEN BinaryPosition(pts, pivot, l, p)
            ELSE BinaryPosition(pts, pivot, p + 1, r)
RECURSIVE BinarySort(_, _)
BinarySort(pts, start) ==
    IF start >= Len(pts) THEN pts
    ELSE LET pivot == pts[start + 1]
             l == BinaryPosition(pts, pivot, 0, start)
         IN BinarySort([j \in DOMAIN pts |->
                           IF j <= l THEN pts[j]
                           ELSE IF j = l + 1 THEN pivot
                           ELSE IF j <= start + 1 THEN pts[j - 1]
                           ELSE pts[j]],
                       start + 1)

\* sorted(family_data) (line 1702)
SortedPoints(pts) == BinarySort(CountRun(pts).list, CountRun(pts).run)

NoFamilyCall ==
    [pc |-> "idle", cls |-> "", full_df |-> <<>>, group_by |-> <<>>, next_family |-> 0,
     data_point_count |-> [some |-> FALSE, v |-> 0], plds_by_family_label |-> <<>>,
     plot_min |-> None, plot_max |-> None,
     x_min |-> None, x_max |-> None, error |-> "none", error_task |-> ""]

\* TwoColumnScatterAnalyzer.analyze_df with a list of TaskFamily instances as group_by
\* (lines 1481-1533). issubclass(t, TaskFamily) raises TypeError for an instance t, so a list
\* that is not empty is taken as the grouping key of DataFrame.groupby, which rejects it;
\* with an empty list the rows are grouped by task name and no name is found in a family
\* (line 1503). Without groups, the group "all" of an empty table fails at line 1527.
ScatterFamilies(full_df, group_by) ==
    /\ fcall.pc = "idle"
    /\ fcall' = [NoFamilyCall EXCEPT
                   !.cls = "TwoColumnScatterAnalyzer", !.full_df = full_df,
                   !.group_by = group_by, !.pc = "raised",
                   !.error = IF group_by # <<>> THEN "groupby: invalid grouping key"
                             ELSE IF full_df # <<>> THEN "ValueError: task name not found"
                             ELSE "ValueError: not enough values to unpack"]
    /\ UNCHANGED notFcall

\* TwoColumnLineAnalyzer.analyze_df (lines 1625-1643) for one pair of columns; plot_min
\* and plot_max are those of the properties of the x column in column_to_properties
LineBegin(full_df, group_by, plot_min, plot_max) ==
    /\ fcall.pc = "idle"
    /\ fcall' = [NoFamilyCall EXCEPT
                   !.cls = "TwoColumnLineAnalyzer", !.full_df = full_df,
                   !.group_by = group_by, !.pc = "families", !.next_family = 1,
                   !.plot_min = plot_min, !.plot_max = plot_max]
    /\ UNCHANGED notFcall

\* The tasks of a family in turn (lines 1653-1680): each task is to have as many rows as
\* the first task looked at, else the assertion of line 1661 fails
\* The tasks of a family without the check of the number of rows
RECURSIVE FamilyPointsUnchecked(_, _, _)
FamilyPointsUnchecked(df, task_names, acc) ==
    IF task_names = <<>> THEN acc
    ELSE LET rows == SelectSeq(df, LAMBDA r : r.task_name = Head(task_names))
         IN FamilyPointsUnchecked(df, Tail(task_names),
                                  [acc EXCEPT !.data_point_count = Some(Len(rows)),
                                              !.points = @ \o TaskPoint(rows)])

RECURSIVE FamilyPoints(_, _, _)
FamilyPoints(df, task_names, acc) ==
    IF task_names = <<>> \/ acc.failed THEN acc
    ELSE LET rows == SelectSeq(df, LAMBDA r : r.task_name = Head(task_names))
             first == ~acc.data_point_count.some
         IN IF ~first /\ acc.data_point_count.v # Len(rows)
            THEN [acc EXCEPT !.failed = TRUE, !.task_name = Head(task_names)]
            ELSE FamilyPoints(df, Tail(task_names),
                              [acc EXCEPT !.data_point_count = Some(Len(rows)),
                                          !.points = @ \o TaskPoint(rows)])

\* Lines 1644-1743: the next family of group_by gets its line
LineFamily ==
    /\ fcall.pc = "families"
    /\ fcall.next_family <= Len(fcall.group_by)
    /\ LET family == fcall.group_by[fcall.next_family]
           r == FamilyPoints(fcall.full_df, family.task_names,
                             [data_point_count |-> fcall.data_point_count, points |-> <<>>,
                              failed |-> FALSE, task_name |-> ""])
       IN IF r.failed
          THEN fcall' = [fcall EXCEPT !.pc = "raised",
                                      !.error = "AssertionError: data points per task",
                                      !.error_task = r.task_name,
                                      !.data_point_count = r.data_point_count]
          ELSE fcall' = [fcall EXCEPT
                           !.next_family = @ + 1,
                           !.data_point_count = r.data_point_count,
                           !.plds_by_family_label =
                               DictSet(@, family.label, SortedPoints(r.points))]
    /\ UNCHANGED notFcall

\* The builtins min(a, b) and max(a, b) of two floats given as fractions: b replaces a
\* only when b < a (b > a), which is never so for NaN
PyMin(a, b) == IF FracLt(b, a) THEN b ELSE a
PyMax(a, b) == IF FracLt(a, b) THEN b ELSE a
\* min(s) and max(s) of a list that is not empty
RECURSIVE PyMinOf(_)
PyMinOf(s) == IF Len(s) = 1 THEN s[1] ELSE PyMin(PyMinOf(SubSeq(s, 1, Len(s) - 1)), s[Len(s)])
RECURSIVE PyMaxOf(_)
PyMaxOf(s) == IF Len(s) = 1 THEN s[1] ELSE PyMax(PyMaxOf(SubSeq(s, 1, Len(s) - 1)), s[Len(s)])

\* The x_values of the descriptors of the families, one list per family with a line
\* (lines 1703-1743: a family without points has no descriptor; the error bars of a
\* family repeat the x_values of its line)
PlottedXValues(plds) ==
    LET made == SelectSeq(plds, LAMBDA e : e.v # <<>>)
    IN [i \in DOMAIN made |-> [j \in DOMAIN made[i].v |-> made[i].v[j].x]]

\* Lines 1751-1757: global_min_x starts at inf and takes the min with the smallest x of
\* each descriptor
RECURSIVE GlobalMinX(_)
GlobalMinX(x_lists) ==
    IF x_lists = <<>> THEN Frac(PInf, 1)
    ELSE PyMin(GlobalMinX(SubSeq(x_lists, 1, Len(x_lists) - 1)),
               PyMinOf(x_lists[Len(x_lists)]))
\* Line 1757: global_max_x starts at -inf and takes the min, not the max, with the
\* largest x of each descriptor
RECURSIVE GlobalMaxX(_)
GlobalMaxX(x_lists) ==
    IF x_lists = <<>> THEN Frac(NInf, 1)
    ELSE PyMin(GlobalMaxX(SubSeq(x_lists, 1, Len(x_lists) - 1)),
               PyMaxOf(x_lists[Len(x_lists)]))

\* Lines 1745-1759: the limits of the x axis. The plot_min and plot_max read from the
\* column properties (lines 1745-1749) are overwritten in lines 1751-1752 before any
\* use; both limits are None when one of the two is infinite (lines 1758-1759)
GlobalXLimits(plds, plot_min, plot_max) ==
    LET global_min_x == GlobalMinX(PlottedXValues(plds))
        global_max_x == GlobalMaxX(PlottedXValues(plds))
    IN IF IsInf(global_min_x.num) \/ IsInf(global_max_x.num)
       THEN [x_min |-> None, x_max |-> None]
       ELSE [x_min |-> Some(global_min_x), x_max |-> Some(global_max_x)]

\* Lines 1745-1783: the limits of the x axis and the rendering, which is done in place
\* with x_min and x_max the limits of GlobalXLimits
LineRender(ok) ==
    /\ fcall.pc = "families"
    /\ fcall.next_family > Len(fcall.group_by)
    /\ LET limits == GlobalXLimits(fcall.plds_by_family_label, fcall.plot_min, fcall.plot_max)
       IN fcall' = [fcall EXCEPT !.x_min = limits.x_min, !.x_max = limits.x_max,
                                 !.pc = IF ok THEN "returned" ELSE "raised",
                                 !.error = IF ok THEN "none" ELSE "rendering failed"]
    /\ UNCHANGED notFcall

InitFcall == fcall = NoFamilyCall

NextFamilies ==
    \/ /\ fcall.pc = "idle"
       /\ \E t \in TaskTables(MaxRows), f \in FamilyLists : ScatterFamilies(t, f)
    \/ /\ fcall.pc = "idle"
       /\ \E t \in TaskTables(MaxRows), f \in FamilyLists : LineBegin(t, f, None, None)
    \/ LineFamily
    \/ \E ok \in BOOLEAN : LineRender(ok)

(***************************************************************************)
(* TaskFamily instances (lines 2252-2282)                                  *)
(***************************************************************************)
\* The families of a run, the task names added to them and the longest list looked at
FamilyIds == {1, 2}
AddedNames == {"t1", "t2"}
LongestList == Cardinality(AddedNames) + 1

\* The lists of task names a caller hands to TaskFamily.__init__: lists without
\* duplicates, and one with a name twice
CallerLists == {<<>>, <<"t1">>, <<"t2", "t1">>, <<"t1", "t1">>}
\* The task_label argument of add_task: None, the empty string or a label
TaskLabels == {"None", "", "L"}

\* No family, no list, no call of add_task yet
NoHeap ==
    [lists |-> <<>>, families |-> <<>>,
     last |-> [family |-> 0, task_name |-> "", task_label |-> "None", outcome |-> "none",
               task_names |-> <<>>, name_to_label |-> <<>>]]

\* The task_names of family f
TaskNamesOf(h, f) == h.lists[h.families[f].task_names]

\* A caller builds a list of task names, to hand it to one family or to several, before
\* any family is made
ListNew(l) ==
    /\ heap.lists = <<>>
    /\ heap' = [heap EXCEPT !.lists = Append(@, l)]
    /\ UNCHANGED notHeap

\* TaskFamily.__init__ (lines 2259-2270): task_names is the list of the caller itself
\* (list number task_names of the heap), or a new empty list for None (0);
\* name_to_label is a new dictionary, with the labels given
TaskFamilyNew(label, task_names, name_to_label) ==
    /\ Len(heap.families) < Cardinality(FamilyIds)
    /\ task_names \in 0..Len(heap.lists)
    /\ LET lists == IF task_names = 0 THEN Append(heap.lists, <<>>) ELSE heap.lists
           list == IF task_names = 0 THEN Len(lists) ELSE task_names
       IN heap' = [heap EXCEPT
                     !.lists = lists,
                     !.families = Append(@, [label |-> label, task_names |-> list,
                                             name_to_label |-> name_to_label])]
    /\ UNCHANGED notHeap

\* add_task without the assertion of line 2278
AddTaskUnchecked(f, task_name, task_label) ==
    /\ f \in DOMAIN heap.families
    /\ Len(TaskNamesOf(heap, f)) < LongestList
    /\ heap' = [heap EXCEPT
                  !.lists[heap.families[f].task_names] = Append(@, task_name),
                  !.families[f].name_to_label =
                      IF task_label \notin {"None", ""}
                      THEN DictSet(@, task_name, task_label) ELSE @,
                  !.last = [family |-> f, task_name |-> task_name,
                            task_label |-> task_label, outcome |-> "returned",
                            task_names |-> TaskNamesOf(heap, f),
                            name_to_label |-> heap.families[f].name_to_label]]
    /\ UNCHANGED notHeap

\* TaskFamily.add_task (lines 2272-2281): the assertion fails for a name that is in
\* task_names, before anything is changed; else the name is appended and its label is
\* stored when one is given
AddTask(f, task_name, task_label) ==
    /\ f \in DOMAIN heap.families
    /\ Len(TaskNamesOf(heap, f)) < LongestList
    /\ LET call_of(outcome) ==
               [family |-> f, task_name |-> task_name, task_label |-> task_label,
                outcome |-> outcome, task_names |-> TaskNamesOf(heap, f),
                name_to_label |-> heap.families[f].name_to_label]
       IN IF task_name \in Range(TaskNamesOf(heap, f))
          THEN heap' = [heap EXCEPT !.last = call_of("AssertionError")]
          ELSE heap' = [heap EXCEPT
                          !.lists[heap.families[f].task_names] = Append(@, task_name),
                          !.families[f].name_to_label =
                              IF task_label \notin {"None", ""}
                              THEN DictSet(@, task_name, task_label) ELSE @,
                          !.last = call_of("returned")]
    /\ UNCHANGED notHeap

InitHeap == heap = NoHeap

NextTaskFamily ==
    \/ \E l \in CallerLists : ListNew(l)
    \/ \E l \in {0, 1}, d \in {<<>>, <<[k |-> "t1", v |-> "one"]>>} :
          TaskFamilyNew("A", l, d)
    \/ \E f \in FamilyIds, n \in AddedNames, l \in TaskLabels : AddTask(f, n, l)

(***************************************************************************)
(* ScalarDictAnalyzer.analyze_df with combine_keys="histogram<n>col"       *)
(* (lines 1855-2175)                                                       *)
(***************************************************************************)
\* The keys and the masses of the dictionaries of a cell, the dictionaries (of at most
\* two keys) and the tables. Every target column of a table holds the same dictionaries.
DictXValues == {0, 4}
DictMasses == {1, 2}
CellDicts == UNION {[K -> DictMasses] : K \in SUBSET DictXValues}
DictTables == UNION {[1..m -> CellDicts] : m \in 1..MaxRows}
DictColumns == {<<"x">>, <<"x", "y">>}
\* mass_fraction (None, 0.5 or 0.75), epsilon (0.25) and the <n> of combine_keys
\* (a mass_fraction of None stands for 1, line 1975)
NoFraction == [some |-> FALSE, v |-> Frac(1, 1)]
MassFractions == {NoFraction, Some(Frac(1, 2)), Some(Frac(3, 4))}
Epsilon == Frac(1, 4)
DictBinCounts == {2, 3}

NoDictCall ==
    [pc |-> "idle", full_df |-> <<>>, target_columns |-> <<>>,
     mass_fraction |-> NoFraction, epsilon |-> Frac(1, 1), bin_count |-> 0,
     next_column |-> 0, absolute_mass |-> 0, interval_width |-> 0, key_min |-> 0,
     key_max |-> 0, column_x_min |-> 0, column_x_max |-> 0, den |-> 1, turns |-> 0,
     keys_by_column |-> <<>>, key_to_x_by_column |-> <<>>, x_values_by_column |-> <<>>,
     jobs |-> <<>>, error |-> "none"]

\* sorted(set(full_df[column].apply(lambda d: list(d.keys())).sum())) (lines 1966-1967)
DfKeys(df) == UNION {DOMAIN df[i] : i \in DOMAIN df}
\* absolute_mass and the sum of mass * x_value of lines 1979-1984
AbsoluteMass(df) == SumSeq([i \in DOMAIN df |-> SumOver(df[i], DOMAIN df[i])])
MassTimesX(df) ==
    SumSeq([i \in DOMAIN df |-> SumOver([k \in DOMAIN df[i] |-> df[i][k] * k], DOMAIN df[i])])

\* get_x_interval_width(a, b) (lines 1990-1998): interval_mass is set to 0 for every
\* dictionary of the column, so what is returned is the mass of the keys in [a, b] of
\* the last dictionary alone. a and b are numerators over den.
GetXIntervalWidth(df, a, b, den) ==
    LET d == df[Len(df)]
    IN SumOver(d, {k \in DOMAIN d : a <= k * den /\ k * den <= b})

\* The condition of the while loop (line 2004)
WidenMore(c) ==
    GetXIntervalWidth(c.full_df, c.column_x_min, c.column_x_max, c.den) * c.mass_fraction.v.den
        < c.absolute_mass * c.mass_fraction.v.num

\* The intervals of HistogramKeyBinner(min_value=a/q, max_value=b/q, bin_count=n) (lines
\* 1805-1808), ends kept as numerators over den: the bins of a range that is not empty
\* have the width (b - a) / (q * n); every bin of an empty range is (min_value, min_value)
RationalIntervals(a, b, q, n) ==
    LET left(i) == a * n + (i - 1) * (b - a)
        right(i) == IF left(i) + (b - a) < b * n THEN left(i) + (b - a) ELSE b * n
    IN IF b > a
       THEN [i \in 1..n |-> [lo |-> left(i), hi |-> right(i), den |-> q * n, closed |-> (i = n)]]
       ELSE [i \in 1..n |-> [lo |-> a, hi |-> a, den |-> q, closed |-> (i = n)]]

\* {k: i for i, k in enumerate(combine_keys.binned_keys)} (line 2028): a label that
\* occurs again keeps its place and takes the later index. x is kept in halves.
KeyToX(binned_keys) ==
    LET n == Len(binned_keys)
        first(i) == \A j \in 1..(i - 1) : binned_keys[j] # binned_keys[i]
        last(i) == CHOOSE j \in i..n :
                      /\ binned_keys[j] = binned_keys[i]
                      /\ \A m \in (j + 1)..n : binned_keys[m] # binned_keys[i]
        positions == SelectSeq([i \in 1..n |-> i], first)
    IN [p \in 1..Len(positions) |->
           [k |-> binned_keys[positions[p]], v |-> Unit * (last(positions[p]) - 1)]]

\* Lines 1855-1958: the call begins; the table has rows
DictBegin(full_df, target_columns, mass_fraction, epsilon, bin_count) ==
    /\ dcall.pc = "idle"
    /\ bin_count > 0
    /\ dcall' = [NoDictCall EXCEPT
                   !.pc = "combine", !.full_df = full_df, !.target_columns = target_columns,
                   !.mass_fraction = mass_fraction, !.epsilon = epsilon,
                   !.bin_count = bin_count, !.next_column = 1]
    /\ UNCHANGED notDcall

\* Lines 2008-2028 for the next column: the binner of [lo / den, hi / den] replaces the
\* keys of the column by its labels, and key_to_x gives every label the index of its bin
ColumnCombined(lo, hi, den) ==
    LET binned_keys == BinnedKeys(RationalIntervals(lo, hi, den, dcall.bin_count))
    IN [dcall EXCEPT !.pc = "combine", !.next_column = @ + 1,
                     !.keys_by_column = Append(@, binned_keys),
                     !.key_to_x_by_column = Append(@, KeyToX(binned_keys))]

\* Lines 1959-2003 for the next target column: its keys, and with a mass_fraction the
\* centroid of the mass, where the interval begins (no key: IndexError of line 1969; no
\* mass: ZeroDivisionError of line 1985). column_x_min and column_x_max are numerators
\* over den = absolute_mass / epsilon.
DictColumn ==
    /\ dcall.pc = "combine"
    /\ dcall.next_column <= Len(dcall.target_columns)
    /\ LET df == dcall.full_df
       IN IF DfKeys(df) = {}
          THEN dcall' = [dcall EXCEPT !.pc = "raised", !.error = "IndexError"]
          ELSE IF dcall.mass_fraction.some
          THEN dcall' = [dcall EXCEPT
                           !.pc = "widen",
                           !.absolute_mass = AbsoluteMass(df),
                           !.interval_width = SetMax(DfKeys(df)) - SetMin(DfKeys(df)),
                           !.key_min = SetMin(DfKeys(df)), !.key_max = SetMax(DfKeys(df)),
                           !.column_x_min = MassTimesX(df) * dcall.epsilon.den,
                           !.column_x_max = MassTimesX(df) * dcall.epsilon.den,
                           !.den = AbsoluteMass(df) * dcall.epsilon.den]
          ELSE dcall' = ColumnCombined(SetMin(DfKeys(df)), SetMax(DfKeys(df)), 1)
    /\ UNCHANGED notDcall

\* One iteration of the loop of lines 2004-2006: interval_width * epsilon is taken from
\* column_x_min and added to column_x_max. Once the interval holds every key of the
\* column, an iteration changes nothing that the condition of the loop looks at: the
\* interval is then left as it is. turns counts the iterations modulo 2.
WidenStep ==
    /\ dcall.pc = "widen"
    /\ WidenMore(dcall)
    /\ LET holds_all == /\ dcall.column_x_min <= dcall.key_min * dcall.den
                        /\ dcall.key_max * dcall.den <= dcall.column_x_max
           moved == dcall.interval_width * dcall.epsilon.num * dcall.absolute_mass
       IN dcall' = [dcall EXCEPT
                      !.column_x_min = IF holds_all THEN @ ELSE @ - moved,
                      !.column_x_max = IF holds_all THEN @ ELSE @ + moved,
                      !.turns = (@ + 1) % 2]
    /\ UNCHANGED notDcall

\* The loop of lines 2004-2006 ends
WidenEnd ==
    /\ dcall.pc = "widen"
    /\ ~WidenMore(dcall)
    /\ dcall' = [dcall EXCEPT !.pc = "widened", !.turns = 0]
    /\ UNCHANGED notDcall

\* Lines 2008-2028 after the loop: the column is binned over the widened interval
DictWidened ==
    /\ dcall.pc = "widened"
    /\ dcall' = ColumnCombined(dcall.column_x_min, dcall.column_x_max, dcall.den)
    /\ UNCHANGED notDcall

\* Lines 2030-2072: the descriptors of every column; each dictionary of a binned
\* column has every label, so the line of a column has a point per label, at the x of
\* key_to_x (scalar_dict_to_pds, lines 2199-2214)
DictDescriptors ==
    /\ dcall.pc = "combine"
    /\ dcall.next_column > Len(dcall.target_columns)
    /\ dcall' = [dcall EXCEPT
                   !.pc = "render", !.next_column = 1,
                   !.x_values_by_column =
                       [c \in DOMAIN dcall.target_columns |->
                           [p \in DOMAIN dcall.key_to_x_by_column[c] |->
                               dcall.key_to_x_by_column[c][p].v]]]
    /\ UNCHANGED notDcall

\* x + 0.5 for every x of a list, n times over
Shifted(xs, n) == [p \in DOMAIN xs |-> xs[p] + n * (Unit \div 2)]

\* Lines 2091-2171 for the next column of the rendering loop. With the histogram
\* combination, lines 2126-2132 visit every column c of key_to_x_by_column: each visit
\* adds 0.5 to the x of every key of column c, and 0.5 to the x_values of the
\* descriptors of the column being rendered. The job of the column is then submitted
\* and waited for.
DictRender ==
    /\ dcall.pc = "render"
    /\ dcall.next_column <= Len(dcall.target_columns)
    /\ LET column == dcall.next_column
           visits == Len(dcall.key_to_x_by_column)
           key_to_x == [c \in DOMAIN dcall.key_to_x_by_column |->
                          [p \in DOMAIN dcall.key_to_x_by_column[c] |->
                              [dcall.key_to_x_by_column[c][p] EXCEPT !.v = @ + Unit \div 2]]]
           x_values == Shifted(dcall.x_values_by_column[column], visits)
           keys == dcall.keys_by_column[column]
           job == [column |-> dcall.target_columns[column],
                   x_values |-> x_values,
                   x_tick_list |-> [t \in DOMAIN keys |-> DictGet(key_to_x[column], keys[t])],
                   x_tick_label_list |-> keys]
       IN dcall' = [dcall EXCEPT
                      !.key_to_x_by_column = key_to_x,
                      !.x_values_by_column[column] = x_values,
                      !.jobs = Append(@, job),
                      !.next_column = @ + 1,
                      !.pc = IF column = Len(dcall.target_columns) THEN "returned" ELSE @]
    /\ UNCHANGED notDcall

InitDcall == dcall = NoDictCall

NextDict ==
    \/ /\ dcall.pc = "idle"
       /\ \E t \in DictTables, cols \in DictColumns, f \in MassFractions, n \in DictBinCounts :
             DictBegin(t, cols, f, Epsilon, n)
    \/ DictColumn
    \/ WidenStep
    \/ WidenEnd
    \/ DictWidened
    \/ DictDescriptors
    \/ DictRender

\* ---- ScalarDistributionAnalyzer.analyze_df of several target columns ----

\* The columns of the table, the orders they are asked for in, and their values
ColumnNames == {"x", "y"}
ColumnOrders == {<<"x">>, <<"y">>, <<"x", "y">>, <<"y", "x">>}
ColumnValues == {0, 4 * Unit}
ColumnTables == UNION {[1..m -> [ColumnNames -> ColumnValues]] : m \in 1..MaxRows}
ColumnOf(df, c) == [i \in DOMAIN df |-> df[i][c]]
\* y_max=None, and the y_max arguments of the runs
NoYMax == [some |-> FALSE, v |-> Frac(0, 1)]
YMaxArguments == {NoYMax, Some(Frac(2, 1))}
\* self.hist_bin_count of the runs
ColumnsBinCount == 2

NoColumnsCall ==
    [pc |-> "idle", full_df |-> <<>>, target_columns |-> <<>>, y_max_argument |-> NoYMax,
     y_max |-> NoYMax, label_column_to_pds |-> <<>>, next_column |-> 1, jobs |-> <<>>]

\* Lines 926-936 without group_by: the descriptors of the group "all", one entry
\* ("all", column) per target column
AllColumnPds(full_df, target_columns) ==
    [i \in DOMAIN target_columns |->
        LET series == ColumnOf(full_df, target_columns[i])
        IN [k |-> <<AllLabel, target_columns[i]>>,
            v |-> ScalarColumnToPds(series, GetScalarMinMaxByColumn(series, None, None),
                                    ColumnsBinCount)]]

\* pds_by_group_name of line 944: the entries of label_column_to_pds of one column, under
\* the name of their group
PdsByGroupName(label_column_to_pds, column_name) ==
    LET own == SelectSeq(label_column_to_pds, LAMBDA e : e.k[2] = column_name)
    IN [i \in DOMAIN own |-> [k |-> own[i].k[1], v |-> own[i].v]]

\* Lines 872-941 without group_by: the limits and the descriptors of every target column
ColumnsBegin(full_df, target_columns, y_max) ==
    /\ ycall.pc = "idle"
    /\ ycall' = [NoColumnsCall EXCEPT
                   !.pc = "render", !.full_df = full_df, !.target_columns = target_columns,
                   !.y_max_argument = y_max, !.y_max = y_max,
                   !.label_column_to_pds = AllColumnPds(full_df, target_columns)]
    /\ UNCHANGED notYcall

\* One turn of the loop of lines 943-1020: y_max is the local variable of the call, it is
\* computed from the descriptors of the column only while it is None (lines 967-974), and
\* it is sent with the rendering job of the column (line 1015)
ColumnRender ==
    /\ ycall.pc = "render"
    /\ LET column_name == ycall.target_columns[ycall.next_column]
           pds_by_group_name == PdsByGroupName(ycall.label_column_to_pds, column_name)
           y_max == IF ycall.y_max.some THEN ycall.y_max ELSE BarDataYMax(pds_by_group_name)
       IN ycall' = [ycall EXCEPT
                      !.y_max = y_max,
                      !.jobs = Append(@, [column |-> column_name, y_max |-> y_max]),
                      !.next_column = @ + 1,
                      !.pc = IF ycall.next_column = Len(ycall.target_columns)
                             THEN "join" ELSE @]
    /\ UNCHANGED notYcall

\* ray.get(expected_return_ids) and the return of analysis_df (lines 1022-1024)
ColumnsEnd ==
    /\ ycall.pc = "join"
    /\ ycall' = [ycall EXCEPT !.pc = "returned"]
    /\ UNCHANGED notYcall

InitYcall == ycall = NoColumnsCall

NextColumns ==
    \/ \E t \in ColumnTables, cols \in ColumnOrders, y_max \in YMaxArguments :
          ColumnsBegin(t, cols, y_max)
    \/ ColumnRender
    \/ ColumnsEnd

Init == InitBinner /\ InitAnalyzer /\ InitAdf /\ InitFcall /\ InitHeap /\ InitDcall /\ InitYcall

\* ScalarDistributionAnalyzer.analyze_df of several target columns alone
SpecColumns == Init /\ [][NextColumns]_vars

\* ScalarDictAnalyzer.analyze_df alone, and the same with the steps of the loop of lines
\* 2004-2006 taken in the end: the interpreter goes on with the loop as long as its
\* condition holds, and leaves it when it does not
SpecDict == Init /\ [][NextDict]_vars
FairSpecDict == SpecDict /\ WF_vars(WidenStep) /\ WF_vars(WidenEnd)

\* The TaskFamily instances alone
SpecTaskFamily == Init /\ [][NextTaskFamily]_vars

\* The values of the analysed column and of the grouping column in the histogram runs
DistValues == {0, 1, 3, 4, PInf, NaN}
DistKeys == {KStr("a"), KStr("b")}
\* The values of the grouping column in the grouping runs
GroupingKeys == {KBool("True"), KStr("True"), KStr("a"), KStr("all"), KNaN}
GroupingValues == {0, 3}

\* ScalarDistributionAnalyzer.analyze_df of tables with columns in X and keys in K
NextDist(K, X, Bounds, Bins) ==
    \/ /\ adf.pc = "idle"
       /\ \E t \in Tables(K, X, MaxRows), by \in BOOLEAN, g \in BOOLEAN,
             lo \in Bounds, hi \in Bounds, bins \in Bins :
              DistBegin(t, by, g, TRUE, lo, hi, bins)
    \/ DistGroup
    \/ DistGlobal
    \/ DistRender
    \/ \E ok \in BOOLEAN : DistJobEnd(ok)
    \/ DistEnd

\* The histograms of both scalar analyzers, one analysis at a time
NextHistograms ==
    \/ adf.pc = "idle" /\ NextAnalyzer
    \/ analyzer = NoAnalyzer /\ NextDist(DistKeys, DistValues, PlotBounds, HistogramBinCounts)

\* The groups of the grouping analyzers
NextGrouping ==
    \/ NextDist(GroupingKeys, GroupingValues, {None}, {2})
    \/ /\ adf.pc = "idle"
       /\ \E cls \in OtherGroupingAnalyzers,
             t \in Tables(GroupingKeys, GroupingValues, MaxRows),
             by \in BOOLEAN, g \in BOOLEAN :
              GroupsBegin(cls, t, <<"x">>, by, g, TRUE)

SpecHistograms == Init /\ [][NextHistograms]_vars
SpecGrouping == Init /\ [][NextGrouping]_vars

\* The tables of the runs that vary the render modes
ModeValues == {0, 1}

\* The analyzer with any selected render modes: of the class, of the instance and in the
\* selected_render_modes argument of get_df
NextModes ==
    \/ \E modes \in SUBSET Modes : ClassSetSelectedRenderModes(modes)
    \/ \E g \in BOOLEAN : AnalyzerNew(None, None, 1, g)
    \/ \E modes \in SUBSET Modes : SetSelectedRenderModes(modes)
    \/ /\ call.pc = "idle"
       /\ \E t \in Tables(GroupKeys, ModeValues, MaxRows), by \in BOOLEAN,
             given \in BOOLEAN, modes \in SUBSET Modes,
             q \in Orders(analyzer.selected_render_modes) :
              /\ ~given => modes = {}
              /\ GetDfBegin(t, <<"x">>, by,
                            [DefaultArgs EXCEPT !.selected_render_modes_given = given,
                                                !.selected_render_modes = modes], q)
    \/ ComputeGroup
    \/ \E q \in Orders(call.selected_render_modes) : RenderAllModes(q)
    \/ \E j \in 1..Cardinality(Modes), ok \in BOOLEAN : JobEnd(j, ok)
    \/ JoinEnd

SpecModes == Init /\ [][NextModes]_vars

\* The arguments a caller of get_df gives: the defaults, or one argument set
CallerArgs ==
    {DefaultArgs,
     [DefaultArgs EXCEPT !.target_columns_given = TRUE, !.target_columns = <<"x">>],
     [DefaultArgs EXCEPT !.output_plot_dir = "out"],
     [DefaultArgs EXCEPT !.selected_render_modes_given = TRUE],
     [DefaultArgs EXCEPT !.show_global = "False"],
     [DefaultArgs EXCEPT !.show_count = FALSE],
     [DefaultArgs EXCEPT !.render_kwargs = {"x_min"}]}

\* The analyzer with tables of one or two numeric columns and any arguments of get_df,
\* and render_all_modes called with any modes
NextRendering ==
    \/ \E g \in BOOLEAN : AnalyzerNew(None, None, 1, g)
    \/ \E modes \in SUBSET Modes : SetSelectedRenderModes(modes)
    \/ /\ call.pc = "idle"
       /\ \E t \in Tables(GroupKeys, ModeValues, MaxRows), cols \in NumericColumns,
             by \in BOOLEAN, args \in CallerArgs,
             q \in Orders(analyzer.selected_render_modes) :
              GetDfBegin(t, cols, by, args, q)
    \/ ComputeGroup
    \/ /\ call.pc = "idle"
       /\ \E modes \in SUBSET Modes, cols \in NumericColumns, by \in BOOLEAN,
             dir \in {"options.plot_dir", "out"} :
              \E q \in Orders(modes) : RenderAllModesBegin(q, cols, by, modes, dir, TRUE)
    \/ \E q \in Orders(call.selected_render_modes) : RenderAllModes(q)
    \/ \E j \in 1..(2 * Cardinality(Modes)), ok \in BOOLEAN : JobEnd(j, ok)
    \/ JoinEnd

SpecRendering == Init /\ [][NextRendering]_vars

\* The target columns of the runs that wait for rendering jobs
JoinColumns == {<<"x">>, <<"x", "y">>}

\* Every analyzer that submits rendering jobs and waits for them, one analysis at a time
NextJoins ==
    \/ /\ adf = NoAnalyzeDf
       /\ \/ \E g \in BOOLEAN : AnalyzerNew(None, None, 1, g)
          \/ /\ call.pc = "idle"
             /\ \E t \in Tables(GroupKeys, ModeValues, MaxRows), cols \in JoinColumns,
                   by \in BOOLEAN, q \in Orders(analyzer.selected_render_modes) :
                    GetDfBegin(t, cols, by, DefaultArgs, q)
          \/ ComputeGroup
          \/ \E q \in Orders(call.selected_render_modes) : RenderAllModes(q)
          \/ \E j \in 1..(2 * Cardinality(Modes)), ok \in BOOLEAN : JobEnd(j, ok)
          \/ JoinEnd
    \/ /\ analyzer = NoAnalyzer
       /\ \/ NextDist(DistKeys, ModeValues, {None}, {1})
          \/ /\ adf.pc = "idle"
             /\ \E cls \in OtherGroupingAnalyzers,
                   t \in Tables(DistKeys, ModeValues, MaxRows), cols \in JoinColumns,
                   by \in BOOLEAN, g \in BOOLEAN :
                    GroupsBegin(cls, t, cols, by, g, TRUE)
          \/ OtherRender
          \/ \E j \in 1..2, ok \in BOOLEAN : OtherJobEnd(j, ok)
          \/ OtherJoinEnd

SpecJoins == Init /\ [][NextJoins]_vars

\* The comparative analyses with TaskFamily groups
SpecFamilies == Init /\ [][NextFamilies]_vars

\* The values of column x in the runs of the line analyzer alone, and its tables: up to
\* one row more than MaxRows, so that a family of three tasks has a row per task
LineX == {0, 3, NaN}
LineTables ==
    UNION {[1..m -> [task_name : TaskNames, x : LineX, y : ComparedY]] :
              m \in 0..(MaxRows + 1)}
\* One family with the three tasks in any order
LineFamilies == {<<TaskFamily("A", q, TaskNames)>> : q \in Orders(TaskNames)}

\* TwoColumnLineAnalyzer.analyze_df of a family of three tasks
NextLines ==
    \/ /\ fcall.pc = "idle"
       /\ \E t \in LineTables, f \in LineFamilies : LineBegin(t, f, None, None)
    \/ LineFamily
    \/ \E ok \in BOOLEAN : LineRender(ok)

SpecLines == Init /\ [][NextLines]_vars

\* The analyzers that label their groups, called with show_global and show_count true
\* or false, one analysis at a time: ScalarNumericAnalyzer through get_df and
\* render_all_modes, ScalarDistributionAnalyzer, HistogramDistributionAnalyzer and
\* OverlappedHistogramAnalyzer through analyze_df
LabellingAnalyzers == {"HistogramDistributionAnalyzer", "OverlappedHistogramAnalyzer"}
NextLabels ==
    \/ adf.pc = "idle" /\ NextRendering
    \/ /\ adf.pc = "idle" /\ call.pc = "idle"
       /\ \E modes \in SUBSET Modes, cols \in NumericColumns, by \in BOOLEAN :
             \E q \in Orders(modes) : RenderAllModesBegin(q, cols, by, modes, "out", FALSE)
    \/ /\ analyzer = NoAnalyzer
       /\ \/ /\ adf.pc = "idle"
             /\ \E t \in Tables(DistKeys, ModeValues, MaxRows),
                   by \in BOOLEAN, g \in BOOLEAN, n \in BOOLEAN :
                    DistBegin(t, by, g, n, None, None, 2)
          \/ DistGroup
          \/ DistGlobal
          \/ DistRender
          \/ \E ok \in BOOLEAN : DistJobEnd(ok)
          \/ DistEnd
          \/ /\ adf.pc = "idle"
             /\ \E cls \in LabellingAnalyzers, t \in Tables(DistKeys, ModeValues, MaxRows),
                   by \in BOOLEAN, g \in BOOLEAN, n \in BOOLEAN :
                    GroupsBegin(cls, t, <<"x">>, by, g, n)
          \/ OtherRender
          \/ \E ok \in BOOLEAN : OtherJobEnd(1, ok)
          \/ OtherJoinEnd

SpecLabels == Init /\ [][NextLabels]_vars

\* TwoColumnLineAnalyzer.analyze_df with and without plot_min and plot_max in the
\* properties of the x column
LinePlotBounds == {None, Some(0), Some(2 * Unit)}
NextLineLimits ==
    \/ /\ fcall.pc = "idle"
       /\ \E t \in TaskTables(MaxRows), f \in FamilyLists, lo \in LinePlotBounds, hi \in LinePlotBounds :
             LineBegin(t, f, lo, hi)
    \/ LineFamily
    \/ \E ok \in BOOLEAN : LineRender(ok)

SpecLineLimits == Init /\ [][NextLineLimits]_vars

\* The binner alone
SpecBinner == Init /\ [][NextBinner]_vars

\* The scalar numeric analyzer alone
SpecAnalyzer == Init /\ [][NextAnalyzer]_vars


(***************************************************************************)
(* Claims about ScalarNumericSummary.compute_plottable_data_one_case       *)
(***************************************************************************)

\* The rows of the summary computed so far, each with the samples of its group
RowSamples(i) == ColumnX(call.groups[i].df)
AllFinite(s) == \A i \in DOMAIN s : IsFinite(s[i])
\* The analysis range of a row before an empty range is widened
RangeBeforeWidening(row) ==
    <<row.plds.lo, IF row.plds.widened THEN row.plds.lo ELSE row.plds.hi>>
HistogramComputed(row) ==
    row.outcome \in {"ok", "ValueError: not all samples included"}

\* C3: for every group whose column holds only finite values and whose analysis range is
\* the [min, max] of the group, the histogram is computed without error, its absolute counts
\* sum to the number of samples of the group and the relative frequencies (counts / y_den)
\* of the BarData sum to 1.
C3_FiniteFullRangeMassIsConserved ==
    \A i \in DOMAIN call.rows :
        LET row == call.rows[i]
        IN (/\ AllFinite(RowSamples(i))
            /\ row.plds.lo = SetMin(Range(RowSamples(i)))
            /\ RangeBeforeWidening(row)[2] = SetMax(Range(RowSamples(i))))
           => /\ row.outcome = "ok"
              /\ SumSeq(row.plds.counts) = row.group_size
              /\ row.plds.y_den = SumSeq(row.plds.counts)

C3_Witness ==
    \E i \in DOMAIN call.rows :
        /\ AllFinite(RowSamples(i))
        /\ Len(RowSamples(i)) = MaxRows
        /\ call.rows[i].plds.lo = SetMin(Range(RowSamples(i)))
        /\ call.rows[i].plds.hi = SetMax(Range(RowSamples(i)))
        /\ call.rows[i].plds.lo < call.rows[i].plds.hi
        /\ Len(call.rows[i].plds.counts) > 1
        /\ SumSeq(call.rows[i].plds.counts) = MaxRows
        /\ call.rows[i].outcome = "ok"

\* Whether the analysis range of a row is narrower than the [min, max] of its group
RangeIsNarrower(row) == FGreater(row.plds.lo, row.min) \/ FLess(row.plds.hi, row.max)

\* C4: when the counted histogram mass differs from the number of samples of the group, the
\* computation raises ValueError unless the min or max of the group is infinite or the
\* analysis range is narrower than the group's [min, max]; in those two cases the
\* difference is logged and the plottable data are produced.
C4_MassDifferenceIsFatalUnlessJustified ==
    \A i \in DOMAIN call.rows :
        LET row == call.rows[i]
            excused == IsInf(row.min) \/ IsInf(row.max) \/ RangeIsNarrower(row)
        IN (HistogramComputed(row) /\ row.plds.mass # row.group_size)
           => IF excused
              THEN /\ row.outcome = "ok"
                   /\ row.plds.logged
                   /\ RenderColumn("x", "histogram") \in row.filled
              ELSE row.outcome = "ValueError: not all samples included"

C4_Witness ==
    \E i, j \in DOMAIN call.rows :
        /\ call.rows[i].plds.mass # call.rows[i].group_size
        /\ call.rows[i].outcome = "ok"
        /\ call.rows[i].plds.logged
        /\ RangeIsNarrower(call.rows[i])
        /\ call.rows[j].plds.mass # call.rows[j].group_size
        /\ call.rows[j].outcome = "ValueError: not all samples included"

\* A column whose samples all equal one finite value
Constant(s) == s # <<>> /\ IsFinite(s[1]) /\ \A i \in DOMAIN s : s[i] = s[1]
\* Exactly one bin is non-zero and it holds n samples
OneBinHoldsAll(counts, n) ==
    \E b \in DOMAIN counts : counts[b] = n /\ \A c \in DOMAIN counts \ {b} : counts[c] = 0
\* The samples of the group analysed under a label by ScalarDistributionAnalyzer
DistSamples(label) ==
    ColumnX(IF label = AllLabel THEN adf.full_df ELSE GroupDf(adf.full_df, label))
NoPlotBounds(min, max) == ~min.some /\ ~max.some
IsInteger(x) == x % Unit = 0

\* C5 as stated: for every group whose samples all equal one finite value v, with no
\* plot_min / plot_max, the analysis range is [v, v + 1], no error is raised and exactly
\* one bin is non-zero and holds all the samples of the group.
C5_ConstantGroupIsWidened ==
    /\ NoPlotBounds(analyzer.plot_min, analyzer.plot_max) =>
          \A i \in DOMAIN call.rows :
              Constant(RowSamples(i)) =>
                  /\ call.rows[i].outcome = "ok"
                  /\ call.rows[i].plds.lo = RowSamples(i)[1]
                  /\ call.rows[i].plds.hi = PlusOne(RowSamples(i)[1])
                  /\ OneBinHoldsAll(call.rows[i].plds.counts, call.rows[i].group_size)
    /\ (adf.cls = "ScalarDistributionAnalyzer" /\ NoPlotBounds(adf.plot_min, adf.plot_max)) =>
          \A i \in DOMAIN adf.label_column_to_pds :
              LET e == adf.label_column_to_pds[i]
              IN Constant(DistSamples(e.k)) =>
                    /\ e.v.lo = DistSamples(e.k)[1]
                    /\ e.v.hi = PlusOne(DistSamples(e.k)[1])
                    /\ OneBinHoldsAll(e.v.counts, Len(DistSamples(e.k)))

\* What holds instead of C5: for every group whose samples all equal one finite value v,
\* in a table
\* whose column holds finite values only and with no plot_min / plot_max, no error is
\* raised, the analysis range is a non-empty range that contains v, and exactly one bin is
\* non-zero and holds all the samples of the group. The range is [v, v + 1] when the whole
\* column of the table equals v (in ScalarDistributionAnalyzer: and v is an integer or at
\* most 1; otherwise the range is [floor(v), ceil(v)]).
C5_ConstantGroupFillsOneBin ==
    /\ (/\ NoPlotBounds(analyzer.plot_min, analyzer.plot_max)
        /\ call.full_df # <<>>
        /\ AllFinite(ColumnX(call.full_df))) =>
          /\ call.pc = "raised" => call.error = "job failed"
          /\ \A i \in DOMAIN call.rows :
                LET row == call.rows[i]
                    v == RowSamples(i)[1]
                IN Constant(RowSamples(i)) =>
                      /\ row.outcome = "ok"
                      /\ row.plds.lo <= v /\ v <= row.plds.hi /\ row.plds.lo < row.plds.hi
                      /\ OneBinHoldsAll(row.plds.counts, row.group_size)
                      /\ Constant(ColumnX(call.full_df)) =>
                            row.plds.lo = v /\ row.plds.hi = PlusOne(v)
    /\ (/\ adf.cls = "ScalarDistributionAnalyzer"
        /\ NoPlotBounds(adf.plot_min, adf.plot_max)
        /\ AllFinite(ColumnX(adf.full_df))) =>
          /\ adf.pc = "raised" => adf.error = "job failed"
          /\ \A i \in DOMAIN adf.label_column_to_pds :
                LET e == adf.label_column_to_pds[i]
                    v == DistSamples(e.k)[1]
                IN Constant(DistSamples(e.k)) =>
                      /\ e.v.lo <= v /\ v <= e.v.hi /\ e.v.lo < e.v.hi
                      /\ OneBinHoldsAll(e.v.counts, Len(DistSamples(e.k)))
                      /\ Constant(ColumnX(adf.full_df)) =>
                            IF IsInteger(v) \/ v <= Unit
                            THEN e.v.lo = v /\ e.v.hi = PlusOne(v)
                            ELSE e.v.lo = Floor(v) /\ e.v.hi = Ceil(v)
          /\ adf.pc \in {"render", "join", "returned"} =>
                \A k \in KeysOf(adf.full_df) :
                    adf.group_by => DictHas(adf.label_column_to_pds, k)

(***************************************************************************)
(* Claims about the groups of the grouping analyzers                       *)
(***************************************************************************)

\* The group dictionary of the analysis is complete
GroupingDone ==
    IF adf.cls = "ScalarDistributionAnalyzer" THEN adf.pc \in {"render", "join", "returned"}
    ELSE adf.pc = "grouped"
RECURSIVE SumValues(_)
SumValues(d) == IF d = <<>> THEN 0 ELSE Head(d).v + SumValues(Tail(d))
OtherGroups(d) == SelectSeq(d, LAMBDA e : e.k # AllLabel)
\* Key values that are present, are not "all" and give different labels
PlainKeys(df) ==
    /\ KNaN \notin KeysOf(df)
    /\ AllLabel \notin KeysOf(df)
    /\ \A k1, k2 \in KeysOf(df) : Stringified(k1) = Stringified(k2) => k1 = k2

\* C6: ScalarDistributionAnalyzer.analyze_df with group_by set and show_global=True has one
\* group per distinct key value plus the group "all"; the count recorded for "all" is the
\* number of rows of the table, and the counts of the other groups sum to that number.
C6_GroupsPartitionTheTable ==
    (/\ adf.cls = "ScalarDistributionAnalyzer" /\ GroupingDone
     /\ adf.group_by /\ adf.show_global) =>
        /\ Len(adf.analysis_df) = Cardinality(KeysOf(adf.full_df)) + 1
        /\ DictHas(adf.analysis_df, AllLabel)
        /\ DictGet(adf.analysis_df, AllLabel).count = Len(adf.full_df)
        /\ SumValues(OtherGroups(adf.lengths_by_group_name)) = Len(adf.full_df)

\* What holds instead of C6: the same, for tables whose key values are all present, are
\* not "all" and stay different when booleans are stringified
C6_GroupsPartitionTheTable_PlainKeys ==
    PlainKeys(adf.full_df) => C6_GroupsPartitionTheTable

\* C7: in every grouping analyzer the group "all" over every row is included if and only
\* if show_global is true or no group_by is given, however many other groups there are
\* (stated for tables where no key value is itself "all").
C7_GlobalGroupIffShowGlobalOrNoGroupBy ==
    (GroupingDone /\ AllLabel \notin KeysOf(adf.full_df)) =>
        (DictHas(adf.lengths_by_group_name, AllLabel) <=> (adf.show_global \/ ~adf.group_by))

\* What holds instead of C7: the same, in the analyzers other than
\* OverlappedHistogramAnalyzer, when at least one row has a key
C7_GlobalGroupIffShowGlobalOrNoGroupBy_NotOverlapped ==
    (/\ adf.cls # "OverlappedHistogramAnalyzer"
     /\ KeysOf(adf.full_df) # {KNaN}) => C7_GlobalGroupIffShowGlobalOrNoGroupBy

\* C8: group labels are unique within one pass of ScalarDistributionAnalyzer.analyze_df:
\* the result has one entry per group of the key column plus one for "all" when it is added,
\* and the entry of every key value records the number of rows with that key.
C8_GroupLabelsAreUnique ==
    (adf.cls = "ScalarDistributionAnalyzer" /\ GroupingDone /\ adf.group_by) =>
        /\ Len(adf.analysis_df) =
              Len(Groupby(adf.full_df)) + (IF adf.show_global THEN 1 ELSE 0)
        /\ \A i \in DOMAIN Groupby(adf.full_df) :
              LET k == Groupby(adf.full_df)[i]
              IN /\ DictHas(adf.analysis_df, Stringified(k))
                 /\ DictGet(adf.analysis_df, Stringified(k)).count
                       = Len(GroupDf(adf.full_df, k))
                 /\ DictGet(adf.lengths_by_group_name, Stringified(k))
                       = Len(GroupDf(adf.full_df, k))

\* What holds instead of C8: the same, for key values that are not "all" and stay
\* different when booleans are stringified
C8_GroupLabelsAreUnique_PlainKeys ==
    PlainKeys(adf.full_df) => C8_GroupLabelsAreUnique

(***************************************************************************)
(* Claims about TaskFamily groups                                          *)
(***************************************************************************)

\* C9: with a list of TaskFamily instances as group_by, the comparative analyzers group the
\* rows by the family of their task name, and a row whose task name is in no family makes
\* the analysis fail with an error (the row is neither plotted nor silently dropped).
C9_UnmatchedTaskIsAnError ==
    fcall.pc \in {"returned", "raised"} =>
        /\ Unmatched(fcall.full_df, fcall.group_by) # {} => fcall.pc = "raised"
        /\ (Unmatched(fcall.full_df, fcall.group_by) = {} /\ fcall.full_df # <<>>) =>
              fcall.error \in {"none", "AssertionError: data points per task",
                               "rendering failed"}

\* C9, first case alone: no line analysis returns with lines plotted when a row has a
\* task that is in no family (violated: the row is dropped)
C9_UnmatchedRowIsDropped ==
    ~(/\ fcall.cls = "TwoColumnLineAnalyzer" /\ fcall.pc = "returned"
      /\ Unmatched(fcall.full_df, fcall.group_by) # {}
      /\ fcall.plds_by_family_label # <<>>)

\* C9, second case alone: no scatter analysis fails because the list of families is
\* taken as a grouping key (violated: every one with families does)
C9_ScatterGroupsByFamily ==
    fcall.cls = "TwoColumnScatterAnalyzer" => fcall.error # "groupby: invalid grouping key"

(***************************************************************************)
(* Claims about the selected render modes                                  *)
(***************************************************************************)

\* A column function has run for some group of the call
SomeGroupProcessed == \E i \in DOMAIN call.rows : call.rows[i].filled # {}
\* A render mode outside valid_render_modes is requested of the call: by the modes of the
\* instance or by the selected_render_modes argument of get_df
InvalidModeRequested ==
    \/ ~(analyzer.selected_render_modes \subseteq analyzer.valid_render_modes)
    \/ call.arg_given /\ ~(call.arg_modes \subseteq analyzer.valid_render_modes)

\* C10: requesting a render mode that is not in valid_render_modes raises an error before
\* any group is processed, for every way of requesting it: no instance exists whose
\* construction found such a mode, and a get_df call for which such a mode is set on the
\* analyzer or passed as argument processes no group and does not get to render or return.
C10_InvalidModeRaisesBeforeAnyGroup ==
    /\ analyzer.raised => ~analyzer.constructed
    /\ (call.pc # "idle" /\ InvalidModeRequested) =>
          ~SomeGroupProcessed /\ call.pc \notin {"join", "returned"}

\* What holds of C10: Analyzer.__init__ raises (and no instance is made) exactly when the
\* class attribute in force holds a mode outside the valid ones
C10_ConstructionValidatesModes ==
    [][(~analyzer.constructed /\ (analyzer'.constructed \/ analyzer'.raised)) =>
          (analyzer'.raised <=> ~(analyzer.cls_selected_render_modes \subseteq ValidRenderModes))
      ]_vars

\* C10, the argument alone: no call given an invalid mode in its selected_render_modes
\* argument returns (violated: the argument is dropped)
C10_InvalidArgumentIsIgnored ==
    ~(/\ call.pc = "returned"
      /\ call.arg_given /\ "bogus" \in call.arg_modes
      /\ analyzer.selected_render_modes = ValidRenderModes)

\* C10, the instance attribute alone: the error for an invalid mode is not raised after
\* the statistics of a group were computed (violated)
C10_InvalidInstanceModeRaisesLate ==
    ~(/\ call.pc = "raised" /\ call.error = "ValueError: invalid render mode"
      /\ call.rows # <<>> /\ call.rows[1].stat_calls = 1)

(***************************************************************************)
(* Claims about Analyzer.render_all_modes and the rendering jobs           *)
(***************************************************************************)

\* The join of render_all_modes has been reached
JoinStarted == call.pc \in {"join", "returned"} \/ call.error = "job failed"

\* The jobs submitted for the render mode m and the target column c
JobsOf(m, c) == {j \in DOMAIN call.jobs : call.jobs[j].mode = m /\ call.jobs[j].column = c}

\* C12: when the join of render_all_modes starts, exactly one job has been submitted per
\* (selected render mode, target column) pair, |modes| x |columns| jobs in all, and no
\* job is submitted later.
C12_OneJobPerModeAndColumn ==
    JoinStarted =>
        /\ Len(call.jobs) = Cardinality(call.selected_render_modes) * Len(call.target_columns)
        /\ \A m \in call.selected_render_modes, c \in Range(call.target_columns) :
              Cardinality(JobsOf(m, c)) = 1

C12_Witness ==
    /\ call.pc = "join"
    /\ Cardinality(call.selected_render_modes) = 2 /\ Len(call.target_columns) = 2
    /\ Len(call.jobs) = 4
    /\ \A j \in DOMAIN call.jobs : call.jobs[j].status = "submitted"

\* Two jobs of one batch that are the jobs of different (column, mode) pairs
DifferentPairs(i, j) ==
    /\ i \in DOMAIN call.jobs /\ j \in DOMAIN call.jobs
    /\ <<call.jobs[i].column, call.jobs[i].mode>> # <<call.jobs[j].column, call.jobs[j].mode>>

\* C13: within one render_all_modes batch, the jobs of two different (column, mode)
\* pairs have different output paths.
C13_PairsHaveDifferentPaths ==
    \A i, j \in DOMAIN call.jobs :
        DifferentPairs(i, j) => call.jobs[i].output_plot_path # call.jobs[j].output_plot_path

\* C13, for the columns only: the jobs of two different target columns have different
\* output paths, and two jobs of one batch have the same path exactly when they are
\* the jobs of one column in two modes.
C13_ColumnsHaveDifferentPaths ==
    \A i, j \in DOMAIN call.jobs :
        (call.jobs[i].output_plot_path = call.jobs[j].output_plot_path)
            <=> (call.jobs[i].column = call.jobs[j].column)

\* C13, for get_df of ScalarNumericAnalyzer, whose only valid mode is "histogram":
\* the batch that get_df joins has no two jobs with the same output path.
C13_GetDfPathsDiffer ==
    (call.entry = "get_df" /\ JoinStarted) =>
        \A i, j \in DOMAIN call.jobs :
            i # j => call.jobs[i].output_plot_path # call.jobs[j].output_plot_path

\* The jobs of the analysis in progress or ended, of either kind of analyzer
Outstanding(jobs) == {j \in DOMAIN jobs : jobs[j].status = "submitted"}
Failed(jobs) == {j \in DOMAIN jobs : jobs[j].status = "failed"}

\* C14: an entry point that submits rendering jobs (Analyzer.get_df and analyze_df of
\* ScalarDistributionAnalyzer, HistogramDistributionAnalyzer, TwoColumnScatterAnalyzer)
\* returns to its caller only when none of its jobs is still outstanding.
C14_ReturnsWithNoJobOutstanding ==
    /\ call.pc = "returned" => Outstanding(call.jobs) = {}
    /\ (/\ adf.pc = "returned"
        /\ adf.cls \in {"ScalarDistributionAnalyzer", "HistogramDistributionAnalyzer",
                        "TwoColumnScatterAnalyzer"})
           => Outstanding(adf.jobs) = {}

\* C14, TwoColumnScatterAnalyzer left out: the entry points that wait with the
\* progress-tracked join or with ray.get return only when no job is outstanding.
C14_ReturnsWithNoJobOutstanding_ExceptScatter ==
    /\ call.pc = "returned" => Outstanding(call.jobs) = {}
    /\ (adf.pc = "returned" /\ adf.cls # "TwoColumnScatterAnalyzer")
           => Outstanding(adf.jobs) = {}

\* C14, the failing case: TwoColumnScatterAnalyzer.analyze_df never returns while one
\* of its jobs is outstanding.
C14_ScatterNeverReturnsEarly ==
    ~(/\ adf.cls = "TwoColumnScatterAnalyzer" /\ adf.pc = "returned"
      /\ Outstanding(adf.jobs) # {})

\* C15: when a submitted rendering job fails, the analyzer call (Analyzer.get_df or
\* analyze_df of ScalarDistributionAnalyzer, TwoColumnScatterAnalyzer,
\* ScalarDictAnalyzer) raises: no call returns a result with a failed job in its batch.
C15_FailedJobMakesTheCallRaise ==
    /\ call.pc = "returned" => Failed(call.jobs) = {}
    /\ (/\ adf.pc = "returned"
        /\ adf.cls \in {"ScalarDistributionAnalyzer", "TwoColumnScatterAnalyzer",
                        "ScalarDictAnalyzer"})
           => Failed(adf.jobs) = {}

\* C15, TwoColumnScatterAnalyzer left out: get_df and the analyzers that wait with
\* ray.get never return with a failed job, and when they raise for a job no further
\* job is submitted.
C15_FailedJobMakesTheCallRaise_ExceptScatter ==
    /\ call.pc = "returned" => Failed(call.jobs) = {}
    /\ (adf.pc = "returned" /\ adf.cls # "TwoColumnScatterAnalyzer")
           => Failed(adf.jobs) = {}
    /\ (adf.error = "job failed" /\ adf.cls = "ScalarDictAnalyzer")
           => Len(adf.jobs) = adf.next_column - 1

\* C15, the failing case: TwoColumnScatterAnalyzer.analyze_df does not return normally
\* when its only job has failed.
C15_ScatterRaisesForItsFailedJob ==
    ~(/\ adf.cls = "TwoColumnScatterAnalyzer" /\ adf.pc = "returned"
      /\ Len(adf.jobs) = 1 /\ adf.jobs[1].status = "failed")

(***************************************************************************)
(* Claims about the columns of ScalarNumericSummary                        *)
(***************************************************************************)

\* The summary of a get_df call has been constructed
SummaryBuilt == call.entry = "get_df" /\ call.pc # "idle" /\ call.full_df # <<>>

\* The positions of a column definition among the declared columns
Declared(cdef) == {i \in DOMAIN call.columns : call.columns[i] = cdef}

\* C16: the constructed ScalarNumericSummary declares exactly one column "c_render-m" per
\* target column c and selected mode m of the analyzer, exactly the five statistics
\* columns of every target column and nothing else, and it does so before the row of
\* any group is computed.
C16_ColumnsAreDeclaredBeforeGroups ==
    SummaryBuilt =>
        /\ \A c \in Range(call.target_columns), m \in analyzer.selected_render_modes :
              Cardinality(Declared(RenderColumn(c, m))) = 1
        /\ \A c \in Range(call.target_columns), d \in Range(Descriptors) :
              Cardinality(Declared(StatColumn(c, d))) = 1
        /\ Len(call.columns) =
              Len(call.target_columns) * (Cardinality(analyzer.selected_render_modes) + 5)

C16_Witness ==
    /\ SummaryBuilt /\ call.pc = "compute" /\ call.rows = <<>>
    /\ Len(call.target_columns) = 2 /\ Cardinality(analyzer.selected_render_modes) = 2
    /\ Len(call.columns) = 14

\* The subsequence of the column definitions of a sequence that are, or are not, plot
\* descriptor (render) columns
PlotColumns(cols) == SelectSeq(cols, LAMBDA c : c.kind = "render")
StatisticsColumns(cols) == SelectSeq(cols, LAMBDA c : c.kind # "render")

\* C17: in the constructed ScalarNumericSummary every statistics column precedes every
\* plot-descriptor column, whatever the names of the target columns; the columns are
\* the ones added, in the same relative order inside each class; and no plot-descriptor
\* function finds the statistics of its column unset.
C17_StatisticsPrecedePlotColumns ==
    SummaryBuilt =>
        /\ call.columns = StatisticsColumns(call.declared) \o PlotColumns(call.declared)
        /\ \A i \in DOMAIN call.rows : call.rows[i].outcome # "KeyError: statistics not set"

\* C17, for target columns whose names do not contain "_render-"
C17_StatisticsPrecedePlotColumns_PlainNames ==
    (SummaryBuilt /\ Range(call.target_columns) \cap RenderInfixNames = {}) =>
        /\ call.columns = StatisticsColumns(call.declared) \o PlotColumns(call.declared)
        /\ \A i \in DOMAIN call.rows : call.rows[i].outcome # "KeyError: statistics not set"

\* C17, the part that holds for any names: the columns are the ones added, and the
\* relative order of the statistics columns and of the plot-descriptor columns is kept.
C17_ColumnsAndRelativeOrderAreKept ==
    SummaryBuilt =>
        /\ Range(call.columns) = Range(call.declared)
        /\ Len(call.columns) = Len(call.declared)
        /\ StatisticsColumns(call.columns) = StatisticsColumns(call.declared)
        /\ PlotColumns(call.columns) = PlotColumns(call.declared)

\* C17, the failing case: no get_df call ends with the KeyError of a statistic that is
\* read before it is set.
C17_StatisticsAreSetBeforeTheyAreRead ==
    ~(call.entry = "get_df" /\ call.pc = "raised"
      /\ call.error = "KeyError: statistics not set")

\* The columns a column function is registered under (lines 370-380 and 533-540)
Owned(inv) ==
    IF inv.fun = "set_scalar_description"
    THEN {StatColumn(inv.col, Descriptors[i]) : i \in DOMAIN Descriptors}
    ELSE {RenderColumn(inv.col, inv.mode)}

\* The invocations of a row that ended without an exception
Completed(row) ==
    IF row.outcome = "ok" THEN row.calls ELSE SubSeq(row.calls, 1, Len(row.calls) - 1)

TargetColumnsAsked ==
    IF call.args.target_columns_given THEN call.args.target_columns
    ELSE call.numeric_columns
OutputPlotDirAsked ==
    IF call.args.output_plot_dir # "None" THEN call.args.output_plot_dir
    ELSE "options.plot_dir"
ModesAsked ==
    IF call.args.selected_render_modes_given THEN call.args.selected_render_modes
    ELSE analyzer.cls_selected_render_modes
ShowGlobalAsked ==
    IF call.args.show_global # "None" THEN call.args.show_global = "True"
    ELSE analyzer.show_global

\* C19: get_df analyses the caller's target_columns (all numeric columns for None) and
\* summarizes and renders with the caller's output_plot_dir, selected_render_modes,
\* show_global, show_count and rendering keyword arguments; only None is replaced by
\* the analyzer's default.
C19_CallerArgumentsAreUsed ==
    SummaryBuilt =>
        /\ call.target_columns = TargetColumnsAsked
        /\ call.output_plot_dir = OutputPlotDirAsked
        /\ call.selected_render_modes = ModesAsked
        /\ call.show_global = ShowGlobalAsked
        /\ call.show_count = call.args.show_count
        /\ call.render_kwargs = call.args.render_kwargs

\* C19, for the arguments left as None: the defaults of the analyzer are used.
C19_DefaultsReplaceNone ==
    (SummaryBuilt /\ call.args = DefaultArgs) =>
        /\ call.target_columns = call.numeric_columns
        /\ call.output_plot_dir = "options.plot_dir"
        /\ call.selected_render_modes = analyzer.cls_selected_render_modes
        /\ call.show_global = analyzer.show_global
        /\ call.show_count /\ call.render_kwargs = {}

\* C19, the failing case: a call for the column "x" of a table with two numeric
\* columns renders the column "x" only.
C19_OnlyTheColumnsAskedAreRendered ==
    (call.entry = "get_df" /\ call.args.target_columns_given) =>
        \A j \in DOMAIN call.jobs : call.jobs[j].column \in Range(call.args.target_columns)

(***************************************************************************)
(* Claims about TwoColumnLineAnalyzer                                      *)
(***************************************************************************)

\* The number of rows of a task in the table of the call
TaskRows(t) == Len(SelectSeq(fcall.full_df, LAMBDA r : r.task_name = t))
\* The tasks named in the families do not all have the same number of rows
RowCountsDiffer ==
    \E t1, t2 \in FamilyTasks(fcall.group_by) : TaskRows(t1) # TaskRows(t2)

\* C11: when the tasks named in the families do not all have the same number of rows,
\* TwoColumnLineAnalyzer.analyze_df does not get past the families: it never renders nor
\* returns, and when it has raised, the error is the assertion on the data points, it names
\* a task of a family whose number of rows differs from the number found before.
C11_RowCountMismatchIsAnError ==
    (fcall.cls = "TwoColumnLineAnalyzer" /\ RowCountsDiffer) =>
        /\ fcall.pc \in {"families", "raised"}
        /\ fcall.next_family <= Len(fcall.group_by)
        /\ fcall.pc = "raised" =>
              /\ fcall.error = "AssertionError: data points per task"
              /\ fcall.error_task \in FamilyTasks(fcall.group_by)
              /\ fcall.data_point_count.some
              /\ TaskRows(fcall.error_task) # fcall.data_point_count.v

\* The mismatch is found in the second of two families
C11_Witness ==
    /\ fcall.cls = "TwoColumnLineAnalyzer" /\ fcall.pc = "raised"
    /\ Len(fcall.group_by) = 2 /\ fcall.next_family = 2
    /\ fcall.error_task = "t1"
    /\ TaskRows("t1") = MaxRows /\ TaskRows("t2") = 0

\* The families whose line has been made, and the line and the points of a family
LinesMade ==
    {k \in DOMAIN fcall.group_by :
        fcall.cls = "TwoColumnLineAnalyzer" /\ k < fcall.next_family}
LineOf(k) == DictGet(fcall.plds_by_family_label, fcall.group_by[k].label)
RECURSIVE PointsOfTasks(_)
PointsOfTasks(task_names) ==
    IF task_names = <<>> THEN <<>>
    ELSE TaskPoint(SelectSeq(fcall.full_df, LAMBDA r : r.task_name = Head(task_names)))
         \o PointsOfTasks(Tail(task_names))
PointsOf(k) == PointsOfTasks(fcall.group_by[k].task_names)

\* The x values of a line never decrease
XNonDecreasing(line) ==
    \A i \in 1..(Len(line) - 1) : FracLt(line[i].x, line[i + 1].x) \/ FracEq(line[i].x, line[i + 1].x)
\* The points of a line are the points of the tasks, each with all its values
SamePoints(line, pts) ==
    /\ Len(line) = Len(pts)
    /\ \A p \in Range(line) \cup Range(pts) :
          Cardinality({i \in DOMAIN line : line[i] = p})
              = Cardinality({i \in DOMAIN pts : pts[i] = p})

\* C20: for every family, every order of the rows and of the task names, the x values
\* of the family's line are non-decreasing and every point keeps the mean y, the range
\* bars and the standard deviations of its own task.
C20_LineIsSortedByX ==
    \A k \in LinesMade : XNonDecreasing(LineOf(k)) /\ SamePoints(LineOf(k), PointsOf(k))

\* C20, for tables without NaN in the x column
C20_LineIsSortedByX_NoNaN ==
    (\A i \in DOMAIN fcall.full_df : ~IsNaN(fcall.full_df[i].x)) =>
        \A k \in LinesMade : XNonDecreasing(LineOf(k)) /\ SamePoints(LineOf(k), PointsOf(k))

\* C20, the part that holds for any values: x, y and the error values of a task stay
\* together, no point is lost and none is added.
C20_PointsArePermutedTogether ==
    \A k \in LinesMade : SamePoints(LineOf(k), PointsOf(k))

\* C20, the failing case: the points of a line whose x is a number are in ascending
\* order of x.
C20_NumbersAreInOrder ==
    \A k \in LinesMade :
        \A i, j \in DOMAIN LineOf(k) :
            (i < j /\ ~IsNaN(LineOf(k)[i].x.num) /\ ~IsNaN(LineOf(k)[j].x.num))
                => ~FracLt(LineOf(k)[j].x, LineOf(k)[i].x)

\* The line analyzer has returned from the rendering of all the families
LineRendered ==
    /\ fcall.cls = "TwoColumnLineAnalyzer" /\ fcall.pc = "returned"
\* All the x values of the plotted descriptors, and whether there is one that is a number
AllPlottedX ==
    UNION {Range(PlottedXValues(fcall.plds_by_family_label)[i]) :
              i \in DOMAIN PlottedXValues(fcall.plds_by_family_label)}
\* v is the smallest (largest) of the x values plotted
IsSmallestX(v) == \E a \in AllPlottedX : FracEq(a, v) /\ \A b \in AllPlottedX : ~FracLt(b, a)
IsLargestX(v) == \E a \in AllPlottedX : FracEq(a, v) /\ \A b \in AllPlottedX : ~FracLt(a, b)

\* C21: the x_min and x_max handed to the renderer are the plot_min and plot_max of the
\* x column when its properties set them, and otherwise the minimum and the maximum of
\* the x values of all the plotted descriptors.
C21_XLimitsFromPropertiesOrData ==
    LineRendered =>
        /\ fcall.plot_min.some =>
               (fcall.x_min.some /\ FracEq(fcall.x_min.v, Frac(fcall.plot_min.v, 1)))
        /\ fcall.plot_max.some =>
               (fcall.x_max.some /\ FracEq(fcall.x_max.v, Frac(fcall.plot_max.v, 1)))
        /\ (~fcall.plot_min.some /\ AllPlottedX # {}) =>
               (fcall.x_min.some /\ IsSmallestX(fcall.x_min.v))
        /\ (~fcall.plot_max.some /\ AllPlottedX # {}) =>
               (fcall.x_max.some /\ IsLargestX(fcall.x_max.v))
\* C21, the properties alone: the plot_min and plot_max that are set are handed over
C21_PlotLimitsOfPropertiesAreUsed ==
    (LineRendered /\ fcall.plot_min.some /\ fcall.plot_max.some) =>
        (fcall.x_min.some /\ fcall.x_max.some)
\* C21, the data alone: without plot_min and plot_max, finite x values give limits
C21_LimitsOfDataAreUsed ==
    (LineRendered /\ ~fcall.plot_min.some /\ ~fcall.plot_max.some
        /\ AllPlottedX # {} /\ \A a \in AllPlottedX : IsFinite(a.num)) =>
        (fcall.x_min.some /\ fcall.x_max.some)
\* What the code does: no limit is ever handed to the renderer
C21_NoLimitIsHandedOver ==
    LineRendered => (fcall.x_min = None /\ fcall.x_max = None)

\* Every value of a point (means, range bars and standard deviations) is finite
FinitePoint(p) == \A i \in DOMAIN PointFields : IsFinite(p[PointFields[i]].num)
\* The rows of the tasks of the families with a line
RowsOfLines ==
    {r \in Range(fcall.full_df) :
        \E k \in LinesMade : r.task_name \in Range(fcall.group_by[k].task_names)}

\* C22: for every task, the pairs (x, y) in which x or y is not finite are excluded
\* before the mean, the range bars and the standard deviation are computed, so every
\* emitted point and error value is finite.
C22_EmittedValuesAreFinite ==
    \A k \in LinesMade : \A i \in DOMAIN LineOf(k) : FinitePoint(LineOf(k)[i])
\* C22 for tables without NaN, in which all infinite values have the same sign
C22_EmittedValuesAreFinite_NoNaN ==
    (/\ \A r \in RowsOfLines : ~IsNaN(r.x) /\ ~IsNaN(r.y)
     /\ ~\E r, q \in RowsOfLines : {PInf, NInf} \subseteq {r.x, r.y, q.x, q.y})
        => C22_EmittedValuesAreFinite
\* A task with an infinite x next to a finite one has a finite point
C22_InfinitePairsAreExcluded ==
    \A k \in LinesMade :
        (\A r \in RowsOfLines : ~IsNaN(r.x) /\ ~IsNaN(r.y))
            => \A i \in DOMAIN LineOf(k) : FinitePoint(LineOf(k)[i])

\* The samples hold infinite values next to finite ones, and no NaN
InfiniteNextToFinite(s) ==
    /\ \E i \in DOMAIN s : IsInf(s[i])
    /\ \E i \in DOMAIN s : IsFinite(s[i])
    /\ \A i \in DOMAIN s : ~IsNaN(s[i])
FiniteCount(s) == Cardinality({i \in DOMAIN s : IsFinite(s[i])})
\* The histogram of row i leaves the infinite samples out, the difference of mass is
\* logged and the descriptors of the group are made
InfiniteLeftOut(i) ==
    /\ call.rows[i].outcome = "ok"
    /\ call.rows[i].plds.logged
    /\ call.rows[i].plds.mass <= FiniteCount(RowSamples(i))
    /\ RenderColumn("x", "histogram") \in call.rows[i].filled

\* C26: for a group whose column holds infinite values next to finite ones, with no
\* plot_min / plot_max, the infinite samples are left out of the histogram, the
\* difference of mass is reported without an error and the descriptors of the group
\* are produced.
C26_InfiniteSamplesAreLeftOut ==
    NoPlotBounds(analyzer.plot_min, analyzer.plot_max) =>
        \A i \in DOMAIN call.rows :
            InfiniteNextToFinite(RowSamples(i)) => InfiniteLeftOut(i)
\* C26 with plot_min and plot_max set instead, in a table without NaN
C26_InfiniteSamplesAreLeftOut_PlotBounds ==
    (analyzer.plot_min.some /\ analyzer.plot_max.some
        /\ \A k \in DOMAIN call.full_df : ~IsNaN(call.full_df[k].x)) =>
        \A i \in DOMAIN call.rows :
            InfiniteNextToFinite(RowSamples(i)) => InfiniteLeftOut(i)
C26_PlotBounds_Witness ==
    /\ analyzer.plot_min.some /\ analyzer.plot_max.some
    /\ \E i \in DOMAIN call.rows :
          InfiniteNextToFinite(RowSamples(i)) /\ call.rows[i].plds.mass > 0
\* What the code does without plot_min / plot_max: the range of the column is infinite
\* and numpy.histogram refuses it
C26_InfiniteRangeIsRefused ==
    NoPlotBounds(analyzer.plot_min, analyzer.plot_max) =>
        \A i \in DOMAIN call.rows :
            InfiniteNextToFinite(RowSamples(i)) =>
                call.rows[i].outcome = "ValueError: histogram range"

(***************************************************************************)
(* Claims about the labels of the groups                                   *)
(***************************************************************************)
\* The labels handed to the jobs of the analyze_df in progress, and to the jobs of
\* render_all_modes
AnalyzeDfLabels ==
    UNION {{adf.jobs[j].y_labels_by_group_name[i].v :
               i \in DOMAIN adf.jobs[j].y_labels_by_group_name} : j \in DOMAIN adf.jobs}
RenderLabels ==
    UNION {Range(call.jobs[j].y_labels) : j \in DOMAIN call.jobs}
\* The show_count asked by the caller of get_df or of render_all_modes
ShowCountAsked ==
    IF call.entry = "get_df" THEN call.args.show_count ELSE call.show_count

\* C23: in every analyzer that builds group labels, the label of a group is the group
\* name followed by its row count when show_count is true and the bare group name when
\* show_count is false, whatever show_global.
C23_ShowCountControlsTheLabels ==
    /\ \A l \in AnalyzeDfLabels : l.with_count = adf.show_count
    /\ \A l \in RenderLabels : l.with_count = ShowCountAsked
\* C23 for ScalarDistributionAnalyzer.analyze_df and for render_all_modes called directly
C23_ShowCountControlsTheLabels_Distribution ==
    /\ adf.cls = "ScalarDistributionAnalyzer" =>
           \A l \in AnalyzeDfLabels : l.with_count = adf.show_count
    /\ call.entry = "render_all_modes" =>
           \A l \in RenderLabels : l.with_count = call.show_count
C23_Distribution_Witness ==
    /\ adf.cls = "ScalarDistributionAnalyzer" /\ ~adf.show_count /\ adf.show_global
    /\ AnalyzeDfLabels # {}
\* C23 for each of the other ways to build labels
C23_HistogramDistributionLabels ==
    adf.cls = "HistogramDistributionAnalyzer" =>
        \A l \in AnalyzeDfLabels : l.with_count = adf.show_count
C23_OverlappedHistogramLabels ==
    adf.cls = "OverlappedHistogramAnalyzer" =>
        \A l \in AnalyzeDfLabels : l.with_count = adf.show_count
C23_GetDfLabels ==
    call.entry = "get_df" => \A l \in RenderLabels : l.with_count = call.args.show_count
\* What HistogramDistributionAnalyzer does: show_global decides
C23_HistogramLabelsFollowShowGlobal ==
    adf.cls = "HistogramDistributionAnalyzer" =>
        \A l \in AnalyzeDfLabels : l.with_count = adf.show_global

(***************************************************************************)
(* Claims about TaskFamily                                                 *)
(***************************************************************************)
NoDuplicates(l) == \A i, j \in DOMAIN l : (l[i] = l[j]) => (i = j)

\* C24: a task name can be added once only. The task_names of a family that has no
\* duplicates has none after any add_task; an add_task of a name that is in task_names
\* fails and leaves task_names and name_to_label as they were.
C24_TaskNameIsAddedOnce ==
    /\ [][\A f \in DOMAIN heap.families :
             NoDuplicates(TaskNamesOf(heap, f)) => NoDuplicates(TaskNamesOf(heap', f))]_vars
    /\ [](heap.last.outcome # "none" =>
             /\ (heap.last.task_name \in Range(heap.last.task_names))
                    <=> (heap.last.outcome = "AssertionError")
             /\ heap.last.outcome = "AssertionError" =>
                    /\ TaskNamesOf(heap, heap.last.family) = heap.last.task_names
                    /\ heap.families[heap.last.family].name_to_label
                           = heap.last.name_to_label)
\* A name is refused by a family that shares its list with the family the name was added to
C24_Witness ==
    /\ heap.last.outcome = "AssertionError"
    /\ Len(heap.families) = 2
    /\ heap.families[1].task_names = heap.families[2].task_names
    /\ NoDuplicates(TaskNamesOf(heap, 1)) /\ Len(TaskNamesOf(heap, 1)) = 2
    /\ heap.last.task_label = "L"

(***************************************************************************)
(* Claims about HistogramKeyBinner                                         *)
(***************************************************************************)

\* The keys of the mapping being binned that lie outside [min_value, max_value]
OutOfRangeKeys == {k \in DOMAIN bcall.input_dict : k < binner.min_value \/ k > binner.max_value}

\* C1: when a call has finished, the ignored total is exactly the weight of the keys
\* below min_value or above max_value, and the bins hold exactly the weight of the
\* other keys (no out-of-range weight reaches a bin).
C1_OutOfRangeWeightIsIgnored ==
    bcall.pc = "done" =>
        /\ bcall.ignored_sum = SumOver(bcall.input_dict, OutOfRangeKeys)
        /\ SumSeq(bcall.index_to_sum)
              = SumOver(bcall.input_dict, DOMAIN bcall.input_dict \ OutOfRangeKeys)

\* The bin (1-based) the claim gives to a key k of [min_value, max_value]:
\* floor((k - min_value) / bin_width) counted from the first bin, the last bin for max_value
ClaimedBin(k) ==
    IF k = binner.max_value THEN binner.bin_count
    ELSE (((k - binner.min_value) * binner.bin_count)
             \div (binner.max_value - binner.min_value)) + 1

\* C2: every loop iteration that takes a key k with min_value <= k <= max_value adds the
\* weight of k to the bin floor((k - min_value) / bin_width), or to the last bin when
\* k = max_value, and changes no other bin and not the ignored total.
C2_InRangeKeyGoesToItsBin ==
    [][(bcall.pc = "loop" /\ bcall'.pc = "loop" /\ bcall'.pending # bcall.pending) =>
          \A k \in bcall.pending \ bcall'.pending :
              (binner.min_value <= k /\ k <= binner.max_value) =>
                  /\ bcall'.index_to_sum =
                         [bcall.index_to_sum EXCEPT ![ClaimedBin(k)] = @ + bcall.input_dict[k]]
                  /\ bcall'.ignored_sum = bcall.ignored_sum]_vars

\* C2 restricted to non-degenerate ranges (min_value < max_value)
C2_InRangeKeyGoesToItsBin_ProperRange ==
    [][(bcall.pc = "loop" /\ bcall'.pc = "loop" /\ bcall'.pending # bcall.pending
        /\ binner.min_value < binner.max_value) =>
          \A k \in bcall.pending \ bcall'.pending :
              (binner.min_value <= k /\ k <= binner.max_value) =>
                  /\ bcall'.index_to_sum =
                         [bcall.index_to_sum EXCEPT ![ClaimedBin(k)] = @ + bcall.input_dict[k]]
                  /\ bcall'.ignored_sum = bcall.ignored_sum]_vars

\* The output mapping has one entry per interval, in the order of the intervals, with
\* the label of the interval
OneEntryPerInterval ==
    /\ Len(bcall.output) = binner.bin_count
    /\ Len(binner.intervals) = binner.bin_count
    /\ \A i \in DOMAIN bcall.output :
          /\ bcall.output[i].key = binner.binned_keys[i]
          /\ bcall.output[i].key.closed <=> (i = binner.bin_count)
    /\ \A i \in 1..(binner.bin_count - 1) :
          binner.intervals[i].lo <= binner.intervals[i + 1].lo

\* C25: for every min_value <= max_value and bin_count > 0, min_value = max_value
\* included, the output mapping of a call has exactly bin_count entries, one per
\* interval in ascending order, all but the last half-open and the last closed.
C25_OneOutputEntryPerBin ==
    bcall.pc = "done" => OneEntryPerInterval
\* C25 for the ranges that are not empty
C25_OneOutputEntryPerBin_ProperRange ==
    (bcall.pc = "done" /\ binner.min_value < binner.max_value) => OneEntryPerInterval
C25_ProperRange_Witness ==
    /\ bcall.pc = "done" /\ binner.min_value < binner.max_value
    /\ binner.bin_count = 5 /\ bcall.total_sum > 0
\* For min_value = max_value the output has two entries whenever bin_count > 1
C25_EmptyRangeHasTwoLabels ==
    (bcall.pc = "done" /\ binner.min_value = binner.max_value /\ binner.bin_count > 1)
        => Len(bcall.output) = 2

\* The sum of the numerators of the output weights, all over the same denominator (1,
\* or total_sum when normalize is set), and the sum of the input weights
OutputMass == SumSeq([i \in DOMAIN bcall.output |-> bcall.output[i].num])
InputMass == SumOver(bcall.input_dict, DOMAIN bcall.input_dict)
MassConserved ==
    /\ bcall.total_sum = InputMass
    /\ OutputMass + bcall.ignored_sum = InputMass
    /\ \A i \in DOMAIN bcall.output :
          bcall.output[i].den = IF binner.normalize THEN InputMass ELSE 1

\* C27: __call__ conserves mass. With normalize false the output weights plus the
\* ignored weight sum to the input weights; with normalize true and a total that is not
\* zero the output weights sum to (total - ignored) / total.
C27_MassIsConserved ==
    (bcall.pc = "done" /\ (binner.normalize => InputMass # 0)) => MassConserved
\* C27 for the ranges that are not empty
C27_MassIsConserved_ProperRange ==
    (bcall.pc = "done" /\ binner.min_value < binner.max_value
        /\ (binner.normalize => InputMass # 0)) => MassConserved
C27_ProperRange_Witness ==
    /\ bcall.pc = "done" /\ binner.min_value < binner.max_value /\ binner.normalize
    /\ bcall.ignored_sum > 0 /\ OutputMass > 0 /\ binner.bin_count > 1
\* C27 whenever no two bins have the same label
C27_MassIsConserved_DistinctLabels ==
    (bcall.pc = "done" /\ Len(bcall.output) = binner.bin_count
        /\ (binner.normalize => InputMass # 0)) => MassConserved

(***************************************************************************)
(* Claims about ScalarDictAnalyzer                                         *)
(***************************************************************************)
Widening == dcall.pc = "widen"

\* C28: with the histogram key combination and 0 < mass_fraction < 1, the loop that
\* widens [column_x_min, column_x_max] around the centroid of the mass ends, for every
\* table with at least one row of positive total mass, whatever its number of rows.
C28_WideningLoopTerminates ==
    (Widening /\ dcall.absolute_mass > 0) ~> ~Widening
\* C28 for the tables of one row
C28_WideningLoopTerminates_OneRow ==
    (Widening /\ Len(dcall.full_df) = 1) ~> ~Widening
\* C28 for the tables whose last row holds the mass asked for
LastRowHoldsTheMass ==
    LET d == dcall.full_df[Len(dcall.full_df)]
    IN SumOver(d, DOMAIN d) * dcall.mass_fraction.v.den
           >= dcall.absolute_mass * dcall.mass_fraction.v.num
\* The loop goes on with an interval that holds every key of the column
C28_LoopGoesOn ==
    /\ Widening /\ WidenMore(dcall)
    /\ dcall.column_x_min <= dcall.key_min * dcall.den
    /\ dcall.key_max * dcall.den <= dcall.column_x_max
\* The loop goes on for ever only when the last row alone has less than the mass asked
C28_LoopGoesOnForLightLastRow ==
    C28_LoopGoesOn => (~LastRowHoldsTheMass /\ Len(dcall.full_df) > 1)

\* Bin index i (from 0) plus n halves, in the unit of the x values
IndexPlusHalves(i, n) == Unit * i + n * (Unit \div 2)
\* No two bins of the job have the same label
DistinctLabels(job) ==
    \A a, b \in DOMAIN job.x_tick_label_list :
        (job.x_tick_label_list[a] = job.x_tick_label_list[b]) => (a = b)
\* The x of every tick, and of every point when the labels differ, is the index of its
\* bin plus n halves
XOffsetIs(job, n) ==
    /\ \A t \in DOMAIN job.x_tick_list : job.x_tick_list[t] = IndexPlusHalves(t - 1, n)
    /\ DistinctLabels(job) =>
           \A q \in DOMAIN job.x_values : job.x_values[q] = IndexPlusHalves(q - 1, n)

\* C29: with the histogram key combination, the x of every plotted point and of every
\* x tick is the index of its bin plus exactly 0.5, for every target column and
\* whatever the number of target columns of the call.
C29_XIsBinIndexPlusHalf ==
    \A j \in DOMAIN dcall.jobs : XOffsetIs(dcall.jobs[j], 1)
\* C29 for the calls with one target column whose bins have different labels
C29_XIsBinIndexPlusHalf_OneColumn ==
    \A j \in DOMAIN dcall.jobs :
        (Len(dcall.target_columns) = 1 /\ DistinctLabels(dcall.jobs[j]))
            => XOffsetIs(dcall.jobs[j], 1)
C29_OneColumn_Witness ==
    /\ dcall.pc = "returned" /\ Len(dcall.target_columns) = 1
    /\ DistinctLabels(dcall.jobs[1]) /\ Len(dcall.jobs[1].x_values) = 3
\* What the code does when the labels differ: the ticks of the j-th column rendered are
\* moved by j halves, and its points by as many halves as there are target columns
C29_OffsetGrowsWithTheColumns ==
    \A j \in DOMAIN dcall.jobs :
        LET job == dcall.jobs[j]
        IN DistinctLabels(job) =>
              /\ \A t \in DOMAIN job.x_tick_list :
                    job.x_tick_list[t] = IndexPlusHalves(t - 1, j)
              /\ \A q \in DOMAIN job.x_values :
                    job.x_values[q] = IndexPlusHalves(q - 1, Len(dcall.target_columns))

\* ---- Claims about the y_max of ScalarDistributionAnalyzer ----

\* The largest bar height among the descriptors of one column of the call
OwnYMax(column_name) ==
    BarDataYMax(PdsByGroupName(ycall.label_column_to_pds, column_name))
SameYMax(a, b) == a.some = b.some /\ (a.some => FracEq(a.v, b.v))

\* C30: called without y_max, the y_max sent with the rendering job of a target column
\* is the largest bar height among the descriptors of that column, whatever the other
\* target columns of the call and their order.
C30_YMaxIsOfTheColumn ==
    ~ycall.y_max_argument.some =>
        \A j \in DOMAIN ycall.jobs :
            SameYMax(ycall.jobs[j].y_max, OwnYMax(ycall.jobs[j].column))
\* C30 for the first target column of the call
C30_YMaxIsOfTheColumn_First ==
    (~ycall.y_max_argument.some /\ ycall.jobs # <<>>) =>
        SameYMax(ycall.jobs[1].y_max, OwnYMax(ycall.jobs[1].column))
C30_First_Witness ==
    /\ ycall.pc = "returned" /\ ~ycall.y_max_argument.some
    /\ Len(ycall.jobs) = 2
    /\ ~SameYMax(OwnYMax("x"), OwnYMax("y"))
\* What the code does: every job of the call gets the y_max of the first column rendered
C30_YMaxIsOfTheFirstColumn ==
    ~ycall.y_max_argument.some =>
        \A j \in DOMAIN ycall.jobs :
            SameYMax(ycall.jobs[j].y_max, OwnYMax(ycall.target_columns[1]))
\* With the y_max argument, every job gets the argument
C30_YMaxArgumentIsSent ==
    ycall.y_max_argument.some =>
        \A j \in DOMAIN ycall.jobs : ycall.jobs[j].y_max = ycall.y_max_argument

====
